---- MODULE Spec2Model ----
(***************************************************************************)
(* Model of the GasRun leaderboard function (/api/leaderboard).            *)
(*                                                                         *)
(* The repository holds three revisions of the function:                   *)
(*   "p1"  src/unnamed/part_001  single cursor, week rollover by snapshot  *)
(*   "api" src/api/leaderboard.js single cursor with scan progress,       *)
(*                                schema version 4                         *)
(*   "p2"  src/unnamed/part_002  two independent cursors, schema version 5 *)
(* The variable rev says which revision is deployed; it never changes.     *)
(*                                                                         *)
(* Time: TLC integers are 32 bits wide, so millisecond timestamps are      *)
(* counted from Sunday 2023-12-31T00:00:00Z (model time 0) instead of      *)
(* 1970-01-01.  Every duration and every difference of two timestamps is   *)
(* the source's.  Block numbers are absolute.                              *)
(***************************************************************************)
EXTENDS Integers, Sequences, FiniteSets, TLC

VARIABLES
  rev,      \* deployed revision
  clock,    \* time (ms) of the latest handler invocation
  invocations, \* update invocations handled so far
  kvState,  \* value under KV_STATE_KEY (serialized state) or NULL
  kvResp,   \* value under KV_RESP_KEY (cached response) or NULL
  kvLock,   \* TRUE while KV_LOCK_KEY is set
  last,     \* what the latest handler invocation did (observation only)
  scanned,  \* per cursor, the block ranges whose logs are merged in kvState (observation only)
  probe,    \* the input and the result of a function applied on its own (SpecPure)
  calls     \* the handler invocations in progress, each at an await (SpecRace)

vars == <<rev, clock, invocations, kvState, kvResp, kvLock, last, scanned, probe, calls>>

(***************************************************************************)
(* Values                                                                  *)
(***************************************************************************)
\* JS null / undefined for record-valued things
NULL == [null |-> TRUE]
\* JS null for a block number (BigInt or null)
NOBLOCK == -1

Truthy(b) == b # NOBLOCK /\ b # 0

Max(a, b) == IF a >= b THEN a ELSE b
Min(a, b) == IF a <= b THEN a ELSE b

\* s.f, or d when the object has no such property (undefined || d)
Field(s, f, d) == IF f \in DOMAIN s THEN s[f] ELSE d

(***************************************************************************)
(* Program constants                                                       *)
(***************************************************************************)
STATE_SCHEMA_VERSION_api == 4
STATE_SCHEMA_VERSION_p2 == 5
MAX_TOP == 100
PRUNE_KEEP == 250
PRUNE_KEEP_p1 == 5000
MAX_SERVERLESS_MS == 8500
stepInitial == 8000
hardMinStep == 900
offset == 1000
SAFETY_BUFFER == 2000
WINDOW_p1 == 1200000
WINDOW_api == 1500000
tries == 6
builtInRpcs == 3
WEEK_MS == 7 * 24 * 60 * 60 * 1000

(***************************************************************************)
(* Time                                                                    *)
(***************************************************************************)
\* Model time 0 is Sunday 2023-12-31T00:00:00Z, so that d.getUTCDay() of day d of
\* model time is d % 7 (0 = Sunday) and no week start is 0, which JS would take
\* for a missing value.  EpochSec is the UNIX time (s) of model time 0.
EpochSec == 19722 * 86400

\* a variant whose weeks start on Sunday
weekStartUtcMs_fromSunday(now) ==
  LET d == now \div 86400000
  IN (d - (d % 7)) * 86400000

weekStartUtcMs(now) ==
  LET d == now \div 86400000
      day == d % 7
      diffToMon == (day + 6) % 7
  IN (d - diffToMon) * 86400000

(***************************************************************************)
(* The chain (environment)                                                 *)
(***************************************************************************)
\* seconds between two blocks, and the number of the block mined at model time 0
BlockTimeSec == 30
RefBlock == 10000000

\* timestamp (s, model time) of block b
BlockTsSec(b) == (b - RefBlock) * BlockTimeSec
\* the newest block at time now (ms)
HeadAt(now) == RefBlock + ((now \div 1000) \div BlockTimeSec)
\* the first block whose timestamp is >= ts (s), the last whose timestamp is <= ts
BlockAtOrAfter(ts) == RefBlock - ((0 - ts) \div BlockTimeSec)
BlockAtOrBefore(ts) == RefBlock + (ts \div BlockTimeSec)
\* the first block of the week starting at w (ms)
WeekBlock(w) == BlockAtOrAfter(w \div 1000)

\* Monday 2024-01-01, the Mondays after it and before it
W0 == 24 * 60 * 60 * 1000
W1 == W0 + WEEK_MS
W2 == W0 + 2 * WEEK_MS
Wm1 == W0 - WEEK_MS
WOld == W0 - 3 * WEEK_MS

Users == {"0xa", "0xb", "0xc"}

Log(b, u, p, w) == [block |-> b, user |-> u, dec |-> [points |-> p, week |-> w]]
\* a log whose data does not decode (decodePointsAndWeek returns null)
BadLog(b, u) == [block |-> b, user |-> u, dec |-> NULL]

\* Every WEEKLY_ADD log the contract ever emits, in block order.  The week in a
\* payload is the sender's clock (src/src/main.js:1000), so around a week
\* boundary it can differ from the week of the block that carries it.
ChainLogs == <<
  Log(WeekBlock(Wm1) + 5000, "0xc", 1, Wm1),
  Log(WeekBlock(W0) - 1000, "0xb", 2, Wm1),
  Log(WeekBlock(W0) + 3000, "0xa", 5, W0),
  Log(WeekBlock(W0) + 9000, "0xb", 2, W0),
  BadLog(WeekBlock(W0) + 9500, "0xc"),
  Log(WeekBlock(W1) - 3000, "0xc", 4, W1),
  Log(WeekBlock(W1) - 1000, "0xa", 3, W0),
  Log(WeekBlock(W1) + 2, "0xb", 1, W0),
  Log(WeekBlock(W1) + 4000, "0xa", 7, W1),
  Log(WeekBlock(W1) + 5000, "0xc", 9, WOld),
  Log(WeekBlock(W1) + 9000, "0xa", 1, W1),
  Log(WeekBlock(W1) + 12000, "0xb", 2, W1),
  Log(WeekBlock(W2) - 500, "0xb", 2, W1),
  Log(WeekBlock(W2) + 1000, "0xc", 6, W2)
>>

\* eth_getLogs / explorer getLogs for [from, to] when the chain head is head
LogsInRange(from, to, head) ==
  SelectSeq(ChainLogs, LAMBDA l : l.block >= from /\ l.block <= to /\ l.block <= head)

(***************************************************************************)
(* One invocation's environment: how the outside world answers.            *)
(*   callMs   wall-clock time of one HTTP round trip                       *)
(*   head     the chain head at the time of the invocation                 *)
(*   latest   what eth_blockNumber answers (NOBLOCK: the call throws)      *)
(*   rpc      outcomes of the successive eth_getLogs calls; "ok" after it  *)
(*   xlogs    how the explorer's getLogs endpoint answers                  *)
(*   xtime    how the explorer's getblocknobytime endpoint answers         *)
(***************************************************************************)
RpcOutcome(env, i) == IF i <= Len(env.rpc) THEN env.rpc[i] ELSE "ok"

(***************************************************************************)
(* Log decoding.  A JS string is a sequence of characters: 0..15 are the    *)
(* hex digits, CharX is "x", CharZ a character that is no hex digit.  A     *)
(* value that may be a string is Str(chars), Missing (undefined, null, "")  *)
(* or NotAString (anything else that is truthy).  A BigInt is its sequence  *)
(* of hex digits without leading zeros.  A JS number is an integer up to    *)
(* NumberCap, which stands for every number above it: the decoder only      *)
(* compares such numbers with 32 and with the length of the data.           *)
(***************************************************************************)
CharX == 16
CharZ == 17
WordLen == 64
MinHexLen == 128
NumberCap == 1073741824

Str(chars) == [kind |-> "string", chars |-> chars]
Missing == [kind |-> "missing"]
NotAString == [kind |-> "other"]
\* what a function returns: null, or nothing because it threw
Null == [kind |-> "null"]
Throw == [kind |-> "throw"]

\* s.slice(a, b), s.slice(a) for 0 <= a
slice(s, a, b) == IF a >= Len(s) \/ b <= a THEN <<>> ELSE SubSeq(s, a + 1, Min(b, Len(s)))
sliceFrom(s, a) == slice(s, a, Len(s))

\* s.startsWith("0x")
startsWith0x(s) == Len(s) >= 2 /\ s[1] = 0 /\ s[2] = CharX

\* BigInt("0x" + h) returns (it throws a SyntaxError otherwise)
bigIntOk(h) == h # <<>> /\ \A i \in 1..Len(h) : h[i] < 16

RECURSIVE strip(_)
strip(h) == IF Len(h) > 1 /\ h[1] = 0 THEN strip(Tail(h)) ELSE h

\* BigInt("0x" + h)
bigInt(h) == strip(h)

RECURSIVE hexValue(_)
hexValue(d) == IF d = <<>> THEN 0 ELSE hexValue(SubSeq(d, 1, Len(d) - 1)) * 16 + d[Len(d)]

\* Number(b) of a BigInt b
toNumber(b) ==
  IF Len(b) > 8 \/ (Len(b) = 8 /\ b[1] >= 4) THEN NumberCap ELSE hexValue(b)

\* n * 2, a + b on numbers
times2(n) == IF n >= NumberCap \div 2 THEN NumberCap ELSE n * 2
plus(a, b) == IF a + b >= NumberCap THEN NumberCap ELSE a + b

\* (v || "").startsWith("0x") ? v.slice(2) : (v || ""): Throw when v is truthy and no string
hexOf(v) ==
  IF v.kind = "other" THEN Throw
  ELSE IF v.kind = "missing" THEN Str(<<>>)
  ELSE IF startsWith0x(v.chars) THEN Str(sliceFrom(v.chars, 2))
  ELSE Str(v.chars)

\* addrFromTopic(topic1): the address as a string, or Throw
addrFromTopic(topic1) ==
  LET \* t.slice(t.length - 40): a negative start counts from the end
      last40(t) == IF Len(t) >= 40 THEN sliceFrom(t, Len(t) - 40)
                   ELSE sliceFrom(t, Max(2 * Len(t) - 40, 0))
      of(h) == IF h.kind = "throw" THEN Throw ELSE Str(<<0, CharX>> \o last40(h.chars))
  IN of(hexOf(topic1))

\* extractBytesParamFromLogData(dataHex): Str, Null or Throw
extractBytesParamFromLogData(dataHex) ==
  LET payloadAt(hex, lenPos, bytesStart) ==
        IF ~bigIntOk(slice(hex, lenPos, lenPos + WordLen)) THEN Throw
        ELSE LET len == toNumber(bigInt(slice(hex, lenPos, lenPos + WordLen)))
                 end == plus(bytesStart, times2(len))
             IN IF end > Len(hex) THEN Null ELSE Str(<<0, CharX>> \o slice(hex, bytesStart, end))
      layout(hex, w0, w1) ==
        IF w0 = 32 THEN payloadAt(hex, WordLen, MinHexLen)
        ELSE IF plus(times2(w1), WordLen) > Len(hex) THEN Null
        ELSE payloadAt(hex, times2(w1), times2(w1) + WordLen)
      words(hex) ==
        IF Len(hex) < MinHexLen THEN Null
        ELSE IF ~bigIntOk(slice(hex, 0, WordLen)) \/ ~bigIntOk(slice(hex, WordLen, MinHexLen))
          THEN Throw
        ELSE layout(hex, toNumber(bigInt(slice(hex, 0, WordLen))),
                    toNumber(bigInt(slice(hex, WordLen, MinHexLen))))
      of(h) == IF h.kind = "throw" THEN Throw ELSE words(h.chars)
  IN of(hexOf(dataHex))

\* a variant that does not test the length of the payload
decodePointsAndWeek_noLengthCheck(payloadHex) ==
  LET words(hex) ==
        IF ~bigIntOk(slice(hex, 0, WordLen)) \/ ~bigIntOk(slice(hex, WordLen, MinHexLen))
          THEN Throw
        ELSE [kind |-> "dec", points |-> bigInt(slice(hex, 0, WordLen)),
              week |-> bigInt(slice(hex, WordLen, MinHexLen))]
  IN IF payloadHex.kind = "null" THEN Null
     ELSE IF startsWith0x(payloadHex.chars) THEN words(sliceFrom(payloadHex.chars, 2))
     ELSE words(payloadHex.chars)

\* decodePointsAndWeek(payloadHex) of a payload that is Str or Null:
\* [kind |-> "dec", points, week], Null or Throw
decodePointsAndWeek(payloadHex) ==
  LET words(hex) ==
        IF Len(hex) < MinHexLen THEN Null
        ELSE IF ~bigIntOk(slice(hex, 0, WordLen)) \/ ~bigIntOk(slice(hex, WordLen, MinHexLen))
          THEN Throw
        ELSE [kind |-> "dec", points |-> bigInt(slice(hex, 0, WordLen)),
              week |-> bigInt(slice(hex, WordLen, MinHexLen))]
  IN IF payloadHex.kind = "null" THEN Null
     ELSE IF startsWith0x(payloadHex.chars) THEN words(sliceFrom(payloadHex.chars, 2))
     ELSE words(payloadHex.chars)

\* decodePointsAndWeek(extractBytesParamFromLogData(l.data))
decodeData(dataHex) ==
  LET of(payload) == IF payload.kind = "throw" THEN Throw ELSE decodePointsAndWeek(payload)
  IN of(extractBytesParamFromLogData(dataHex))

(***************************************************************************)
(* Totals: a JS Map is a sequence of <<address, points>> in insertion order *)
(***************************************************************************)
RECURSIVE mapFind(_, _, _)
mapFind(m, a, i) ==
  IF i > Len(m) THEN 0 ELSE IF m[i][1] = a THEN i ELSE mapFind(m, a, i + 1)

\* m.get(a) || 0n
mapGet(m, a) == LET i == mapFind(m, a, 1) IN IF i = 0 THEN 0 ELSE m[i][2]

\* m.set(a, v)
mapSet(m, a, v) ==
  LET i == mapFind(m, a, 1)
  IN IF i = 0 THEN Append(m, <<a, v>>) ELSE [m EXCEPT ![i] = <<a, v>>]

\* n.toString() of a BigInt n >= 0: its decimal digits
RECURSIVE toString(_)
toString(n) == IF n < 10 THEN <<n>> ELSE Append(toString(n \div 10), n % 10)

\* the place of entry i after a stable sort by total, descending: behind the
\* entries with a greater total and the earlier entries with the same total
placeOf(m, i) ==
  Cardinality({ j \in 1..Len(m) : m[j][2] > m[i][2] \/ (m[j][2] = m[i][2] /\ j <= i) })

\* the entries of m, each at its place
placed(m, places) ==
  [k \in 1..Len(m) |-> m[CHOOSE i \in 1..Len(m) : places[i] = k]]

\* a variant that leaves the entries in insertion order
sortEntries_unsorted(m) == m

\* [...map.entries()].sort((a, b) => (b[1] > a[1] ? 1 : b[1] < a[1] ? -1 : 0)): stable, descending
sortEntries(m) == placed(m, SubSeq([i \in 1..Len(m) |-> placeOf(m, i)], 1, Len(m)))

\* a variant that keeps the first entries in insertion order
pruneToTop_unsorted(map, keep) == SubSeq(map, 1, Min(keep, Len(map)))

\* pruneToTop(map, keep): the first keep entries by total, ties in insertion order
pruneToTop(map, keep) == SubSeq(sortEntries(map), 1, Min(keep, Len(map)))

\* .map(([address, points]) => ({ address, points: points.toString() }))
toArray(sorted) ==
  [i \in 1..Len(sorted) |-> [address |-> sorted[i][1], points |-> toString(sorted[i][2])]]

sortMapToArray(m) == toArray(sortEntries(m))

emptyWeekState(weekMs) == [weekMs |-> weekMs, map |-> <<>>]

RECURSIVE weekFind(_, _, _)
weekFind(weeks, weekMs, i) ==
  IF i > Len(weeks) THEN 0
  ELSE IF weeks[i].weekMs = weekMs THEN i ELSE weekFind(weeks, weekMs, i + 1)

\* the weeks array after getOrMakeWeekMap(state, weekMs)
getOrMakeWeekMap(weeks, weekMs) ==
  IF weekFind(weeks, weekMs, 1) = 0 THEN Append(weeks, emptyWeekState(weekMs)) ELSE weeks

\* state.weeks.find((x) => x.weekMs === weekMs)?.map || new Map()
weekMap(weeks, weekMs) ==
  LET i == weekFind(weeks, weekMs, 1) IN IF i = 0 THEN <<>> ELSE weeks[i].map

\* a variant that overwrites the total: m.set(user, points)
addPoints_overwrites(weeks, weekMs, user, points) ==
  LET ws == getOrMakeWeekMap(weeks, weekMs)
      i == weekFind(ws, weekMs, 1)
  IN [ws EXCEPT ![i].map = mapSet(@, user, points)]

\* m.set(user, (m.get(user) || 0n) + points) on the map of weekMs
addPoints(weeks, weekMs, user, points) ==
  LET ws == getOrMakeWeekMap(weeks, weekMs)
      i == weekFind(ws, weekMs, 1)
  IN [ws EXCEPT ![i].map = mapSet(@, user, mapGet(@, user) + points)]

\* a variant that does not compare the decoded week with the bucket's
RECURSIVE applyLoop_anyWeek(_, _, _, _)
applyLoop_anyWeek(weeks, weekMs, logs, k) ==
  IF k > Len(logs) THEN weeks
  ELSE LET l == logs[k]
       IN IF l.dec = NULL THEN applyLoop_anyWeek(weeks, weekMs, logs, k + 1)
          ELSE applyLoop_anyWeek(addPoints(weeks, weekMs, l.user, l.dec.points), weekMs, logs, k + 1)

\* part_002: merge the logs whose week is weekMs into the map of weekMs
RECURSIVE applyLoop(_, _, _, _)
applyLoop(weeks, weekMs, logs, k) ==
  IF k > Len(logs) THEN weeks
  ELSE LET l == logs[k]
       IN IF l.dec = NULL THEN applyLoop(weeks, weekMs, logs, k + 1)
          ELSE IF l.dec.week # weekMs THEN applyLoop(weeks, weekMs, logs, k + 1)
          ELSE applyLoop(addPoints(weeks, weekMs, l.user, l.dec.points), weekMs, logs, k + 1)

applyLogsToWeekMap(weeks, weekMs, logs) ==
  applyLoop(getOrMakeWeekMap(weeks, weekMs), weekMs, logs, 1)

\* a variant that makes a bucket for whatever week a log names
RECURSIVE mergeLoop_anyWeek(_, _, _, _, _)
mergeLoop_anyWeek(weeks, curWeekMs, prevWeekMs, logs, k) ==
  IF k > Len(logs) THEN weeks
  ELSE LET l == logs[k]
       IN IF l.dec = NULL THEN mergeLoop_anyWeek(weeks, curWeekMs, prevWeekMs, logs, k + 1)
          ELSE mergeLoop_anyWeek(addPoints(weeks, l.dec.week, l.user, l.dec.points),
                                 curWeekMs, prevWeekMs, logs, k + 1)

\* part_001, api/leaderboard.js: merge each log into the map of its own week, if tracked
RECURSIVE mergeLoop(_, _, _, _, _)
mergeLoop(weeks, curWeekMs, prevWeekMs, logs, k) ==
  IF k > Len(logs) THEN weeks
  ELSE LET l == logs[k]
       IN IF l.dec = NULL THEN mergeLoop(weeks, curWeekMs, prevWeekMs, logs, k + 1)
          ELSE IF l.dec.week # curWeekMs /\ l.dec.week # prevWeekMs
            THEN mergeLoop(weeks, curWeekMs, prevWeekMs, logs, k + 1)
          ELSE mergeLoop(addPoints(weeks, l.dec.week, l.user, l.dec.points),
                         curWeekMs, prevWeekMs, logs, k + 1)

mergeLogs(weeks, curWeekMs, prevWeekMs, logs) == mergeLoop(weeks, curWeekMs, prevWeekMs, logs, 1)

\* state.weeks.filter(cur or prev).map(w => ({weekMs, map: pruneToTop(w.map, keep)}))
keepTwoWeeks(weeks, curWeekMs, prevWeekMs) ==
  SelectSeq(weeks, LAMBDA w : w.weekMs = curWeekMs \/ w.weekMs = prevWeekMs)

pruneWeeks(weeks, keep) ==
  [i \in 1..Len(weeks) |-> [weekMs |-> weeks[i].weekMs, map |-> pruneToTop(weeks[i].map, keep)]]

(***************************************************************************)
(* Chain log source                                                        *)
(***************************************************************************)
shrink(step, minStep) == IF step \div 2 < minStep THEN minStep ELSE step \div 2

\* What an eth_getLogs call can throw, by outcome name: what the provider meant
\* (kind) and what the catch block of fetchLogsRange can see of it.  The message
\* of an HTTP error is "RPC HTTP <status>: <body>", that of a JSON-RPC error
\* "RPC error: <error>".
\*   toolarge   "query range is too large"
\*   ratelimit  HTTP 429 "Too Many Requests"
\*   overlimit  HTTP 429 "over rate limit"
\*   timeout    "timeout"
\*   freetier   "ranges over 10000 blocks are not supported on freetier"
\*   unknown    anything else
errorOf(out) ==
  [kind |-> CASE out = "toolarge" -> "tooLarge"
              [] out \in {"ratelimit", "overlimit"} -> "rateLimit"
              [] out = "timeout" -> "transient"
              [] out = "freetier" -> "freetier"
              [] OTHER -> "other",
   freetier |-> out = "freetier",
   \* msg.includes("range is too large") || ... || msg.includes("limit") || ...
   limit |-> out \in {"toolarge", "overlimit"},
   rateLimitish |-> out \in {"ratelimit", "overlimit"},
   timeout |-> out = "timeout"]

\* the branch of the catch block of fetchLogsRange an error takes
catchBranch(e) ==
  IF e.freetier THEN "rethrow"
  ELSE IF e.limit THEN "shrink"
  ELSE IF e.rateLimitish \/ e.timeout THEN "wait"
  ELSE "shrinkOnce"

\* the result of the rest of the loop, with this iteration's eth_getLogs call in front
called(call, rest) == [rest EXCEPT !.chunks = <<call>> \o @]

\* The loop of fetchLogsRange.  t is the time elapsed since the handler
\* started, i the index of the next eth_getLogs call.  chunks lists the
\* eth_getLogs calls made: the range asked for, the step it was cut with, the outcome.
RECURSIVE fetchLoop(_, _, _, _, _, _, _, _, _)
fetchLoop(env, from, toBlock, step, minStep, lastScanned, logsOut, t, i) ==
  IF from > toBlock
    THEN [thrown |-> FALSE, logs |-> logsOut, lastScannedBlock |-> lastScanned,
          complete |-> TRUE, t |-> t, i |-> i, stops |-> {}, chunks |-> <<>>]
  ELSE IF t > MAX_SERVERLESS_MS
    THEN [thrown |-> FALSE, logs |-> logsOut, lastScannedBlock |-> lastScanned,
          complete |-> FALSE, t |-> t, i |-> i, stops |-> {"rpc"}, chunks |-> <<>>]
  ELSE
    LET to == IF from + step > toBlock THEN toBlock ELSE from + step
        out == RpcOutcome(env, i)
        branch == IF out = "ok" THEN "ok" ELSE catchBranch(errorOf(out))
        t1 == t + env.callMs
        call == [from |-> from, to |-> to, step |-> step, out |-> out]
    IN CASE branch = "ok" ->
              called(call, fetchLoop(env, to + 1, toBlock, step, minStep, to,
                                     logsOut \o LogsInRange(from, to, env.head), t1, i + 1))
         \* rethrown: logsOut, held in memory, is lost with the throw
         [] branch = "rethrow" ->
              [thrown |-> TRUE, logs |-> logsOut, lastScannedBlock |-> lastScanned,
               complete |-> FALSE, t |-> t1, i |-> i + 1, stops |-> {}, chunks |-> <<call>>]
         [] branch = "shrink" ->
              called(call, fetchLoop(env, from, toBlock, shrink(step, minStep), minStep,
                                     lastScanned, logsOut, t1 + 120, i + 1))
         [] branch = "wait" ->
              called(call, fetchLoop(env, from, toBlock, step, minStep, lastScanned, logsOut,
                                     t1 + 250, i + 1))
         [] OTHER ->
              called(call, fetchLoop(env, from, toBlock, shrink(step, minStep), minStep,
                                     lastScanned, logsOut, t1 + 120, i + 1))

\* api/leaderboard.js, part_002
fetchLogsRange(env, fromBlock, toBlock, stepInit, minStep, t, i) ==
  fetchLoop(env, fromBlock, toBlock, stepInit, minStep,
            IF fromBlock > 0 THEN fromBlock - 1 ELSE 0, <<>>, t, i)

\* how the explorer answers the n-th getLogs request of a scan: "ok", "ratelimit"
\* (HTTP 429, or a status-0 answer whose text says "rate") or "error"
ExplorerAnswer(env, n) ==
  IF "xseq" \in DOMAIN env /\ n <= Len(env.xseq) THEN env.xseq[n] ELSE env.xlogs

\* the records the explorer holds for [fromBlock, toBlock]
ExplorerLogs(env, fromBlock, toBlock) ==
  IF "records" \in DOMAIN env THEN [k \in 1..env.records |-> k]
  ELSE LogsInRange(fromBlock, toBlock, env.head)

\* the result of the rest of the loop, with this iteration's request in front
requested(request, rest) == [rest EXCEPT !.pages = <<request>> \o @]

\* a variant that moves to the next page after a rate-limit answer
RECURSIVE scanLoop_skipsPage(_, _, _, _, _, _, _, _, _)
scanLoop_skipsPage(env, fromBlock, toBlock, page, out, t, throwOnDeadline, pageSleep, n) ==
  IF t > MAX_SERVERLESS_MS
    THEN [thrown |-> throwOnDeadline, logs |-> out, t |-> t, complete |-> FALSE,
          stops |-> {"scan"}, pages |-> <<>>]
  ELSE
    LET all == ExplorerLogs(env, fromBlock, toBlock)
        lo == (page - 1) * offset + 1
        logs == SubSeq(all, lo, Min(Len(all), page * offset))
        t1 == t + env.callMs
        answer == ExplorerAnswer(env, n)
        request(what, got) == [page |-> page, answer |-> what, appended |-> got]
    IN CASE answer = "ratelimit" ->
              requested(request("ratelimit", 0),
                        scanLoop_skipsPage(env, fromBlock, toBlock, page + 1, out, t1 + 250,
                                           throwOnDeadline, pageSleep, n + 1))
         [] answer = "error" ->
              [thrown |-> TRUE, logs |-> <<>>, t |-> t1, complete |-> FALSE, stops |-> {},
               pages |-> <<request("error", 0)>>]
         [] OTHER ->
              IF Len(all) < lo
                THEN [thrown |-> FALSE, logs |-> out, t |-> t1, complete |-> TRUE, stops |-> {},
                      pages |-> <<request("norecords", 0)>>]
              ELSE IF Len(logs) < offset
                THEN [thrown |-> FALSE, logs |-> out \o logs, t |-> t1, complete |-> TRUE,
                      stops |-> {}, pages |-> <<request("short", Len(logs))>>]
              ELSE requested(request("full", Len(logs)),
                             scanLoop_skipsPage(env, fromBlock, toBlock, page + 1, out \o logs,
                                                t1 + pageSleep, throwOnDeadline, pageSleep, n + 1))

\* The loop of fetchLogsViaBaseScan; throwOnDeadline is FALSE in part_001,
\* which breaks out of the loop instead; pageSleep is the pause between pages,
\* n the index of the next request.  pages lists the requests made: the page
\* asked for, the answer, the number of records appended.
RECURSIVE scanLoop(_, _, _, _, _, _, _, _, _)
scanLoop(env, fromBlock, toBlock, page, out, t, throwOnDeadline, pageSleep, n) ==
  IF t > MAX_SERVERLESS_MS
    THEN [thrown |-> throwOnDeadline, logs |-> out, t |-> t, complete |-> FALSE,
          stops |-> {"scan"}, pages |-> <<>>]
  ELSE
    LET all == ExplorerLogs(env, fromBlock, toBlock)
        lo == (page - 1) * offset + 1
        logs == SubSeq(all, lo, Min(Len(all), page * offset))
        t1 == t + env.callMs
        answer == ExplorerAnswer(env, n)
        request(what, got) == [page |-> page, answer |-> what, appended |-> got]
    IN CASE answer = "ratelimit" ->
              requested(request("ratelimit", 0),
                        scanLoop(env, fromBlock, toBlock, page, out, t1 + 250, throwOnDeadline,
                                 pageSleep, n + 1))
         [] answer = "error" ->
              [thrown |-> TRUE, logs |-> <<>>, t |-> t1, complete |-> FALSE, stops |-> {},
               pages |-> <<request("error", 0)>>]
         [] OTHER ->
              IF Len(all) < lo
                THEN [thrown |-> FALSE, logs |-> out, t |-> t1, complete |-> TRUE, stops |-> {},
                      pages |-> <<request("norecords", 0)>>]
              ELSE IF Len(logs) < offset
                THEN [thrown |-> FALSE, logs |-> out \o logs, t |-> t1, complete |-> TRUE,
                      stops |-> {}, pages |-> <<request("short", Len(logs))>>]
              ELSE requested(request("full", Len(logs)),
                             scanLoop(env, fromBlock, toBlock, page + 1, out \o logs,
                                      t1 + pageSleep, throwOnDeadline, pageSleep, n + 1))

\* [thrown, logs, t, complete, stops, pages]; complete is FALSE when the loop was left
\* at the deadline or threw; stops names the loop whose deadline test ended it
fetchLogsViaBaseScan(env, fromBlock, toBlock, t, throwOnDeadline, pageSleep) ==
  scanLoop(env, fromBlock, toBlock, 1, <<>>, t, throwOnDeadline, pageSleep, 1)

(***************************************************************************)
(* Block-time resolver                                                     *)
(***************************************************************************)
\* getBlockByTimeBaseScan(timestampSec, closest): NOBLOCK when it throws
getBlockByTimeBaseScan(env, timestampSec, closest) ==
  LET ts == Max(0 - EpochSec, timestampSec)
      b == IF closest = "after" THEN BlockAtOrAfter(ts) ELSE BlockAtOrBefore(ts)
  IN IF env.xtime # "ok" \/ b > env.head \/ b < 0 THEN NOBLOCK ELSE b

\* eth_getBlockByNumber(b).timestamp on a chain: the model's chain, or a chain
\* given by the timestamps ts of its blocks 0, 1, 2, ...
ModelChain == [ts |-> <<>>]
getBlockTimestampSec(chain, b) == IF chain = ModelChain THEN BlockTsSec(b) ELSE chain.ts[b + 1]

\* a variant that returns the first block it finds at or after the target
RECURSIVE searchLoop_firstHit(_, _, _, _, _, _)
searchLoop_firstHit(chain, targetTsSec, lo, hi, ans, n) ==
  IF lo > hi THEN [ans |-> ans, calls |-> n]
  ELSE LET mid == (lo + hi) \div 2
       IN IF getBlockTimestampSec(chain, mid) >= targetTsSec
            THEN [ans |-> mid, calls |-> n + 1]
          ELSE searchLoop_firstHit(chain, targetTsSec, mid + 1, hi, ans, n + 1)

RECURSIVE searchLoop(_, _, _, _, _, _)
searchLoop(chain, targetTsSec, lo, hi, ans, n) ==
  IF lo > hi THEN [ans |-> ans, calls |-> n]
  ELSE LET mid == (lo + hi) \div 2
       IN IF getBlockTimestampSec(chain, mid) >= targetTsSec
            THEN IF mid = 0 THEN [ans |-> mid, calls |-> n + 1]
                 ELSE searchLoop(chain, targetTsSec, lo, mid - 1, mid, n + 1)
          ELSE searchLoop(chain, targetTsSec, mid + 1, hi, ans, n + 1)

\* [ans, calls]: the block found and the number of eth_getBlockByNumber calls made
findFirstBlockAtOrAfterTsSec(targetTsSec, latestBlock) ==
  searchLoop(ModelChain, targetTsSec, 0, latestBlock, latestBlock, 0)

(***************************************************************************)
(* Observation of the ranges merged into a cursor's buckets                 *)
(***************************************************************************)
NoCover == [lo |-> NOBLOCK, hi |-> NOBLOCK, gap |-> FALSE, overlap |-> FALSE]

Extend(c, from, to) ==
  IF to < from THEN c
  ELSE IF c.lo = NOBLOCK THEN [lo |-> from, hi |-> to, gap |-> FALSE, overlap |-> FALSE]
  ELSE [lo |-> c.lo, hi |-> Max(c.hi, to),
        gap |-> c.gap \/ from > c.hi + 1, overlap |-> c.overlap \/ from <= c.hi]

\* one fetch of an update: the range asked for, what came back, what was merged,
\* the number of eth_getLogs calls it made (r.i is the index of the next call),
\* the loops that stopped at the deadline
Req(cursor, from, to, r, via) ==
  [cursor |-> cursor, from |-> from, to |-> to, lastScannedBlock |-> r.lastScannedBlock,
   complete |-> r.complete, via |-> via, deadline |-> r.t > MAX_SERVERLESS_MS,
   calls |-> r.i - 1, stops |-> r.stops]

Thrown(t, obs) == [thrown |-> TRUE, state |-> NULL, t |-> t, obs |-> obs]

\* what an update did: cold/coldState a cold backfill and the state it built before
\* any scan, rolled/rolledState a rollover and the state right after it, resolved a
\* time -> block resolution, reqs the fetches, prevAt when part_002 came to its
\* step 2: "early" with more than 250 ms left before the deadline, "late" otherwise
NoObs ==
  [cold |-> FALSE, coldState |-> NULL, rolled |-> FALSE, rolledState |-> NULL,
   resolved |-> FALSE, reqs |-> <<>>, prevAt |-> "none"]

(***************************************************************************)
(* part_002: two independent cursors                                       *)
(***************************************************************************)
serBlock(b) == IF Truthy(b) THEN b ELSE NOBLOCK

\* BigInt(pts) of a string of decimal digits
RECURSIVE BigInt(_)
BigInt(pts) ==
  IF pts = <<>> THEN 0 ELSE BigInt(SubSeq(pts, 1, Len(pts) - 1)) * 10 + pts[Len(pts)]

\* [...w.map.entries()].map(([a, p]) => [a, p.toString()])
serEntries(map) == [j \in 1..Len(map) |-> <<map[j][1], toString(map[j][2])>>]

\* for (const [addr, pts] of w.entries) m.set(String(addr).toLowerCase(), BigInt(pts))
desEntries(entries) == [j \in 1..Len(entries) |-> <<entries[j][1], BigInt(entries[j][2])>>]

serWeeks(weeks) ==
  [i \in 1..Len(weeks) |-> [weekMs |-> weeks[i].weekMs, entries |-> serEntries(weeks[i].map)]]

\* for (const w of [s.weeks[0], s.weeks[1]]) { if (!w || !w.weekMs || !w.entries) continue; ... }
desWeeks(sw) ==
  LET two == SubSeq(sw, 1, Min(2, Len(sw)))
      kept == SelectSeq(two, LAMBDA w : w.weekMs # 0)
  IN [i \in 1..Len(kept) |-> [weekMs |-> kept[i].weekMs, map |-> desEntries(kept[i].entries)]]

serializeState_p2(state) ==
  [schemaVersion |-> IF state.schemaVersion # 0 THEN state.schemaVersion ELSE STATE_SCHEMA_VERSION_p2,
   currentWeekMs |-> state.currentWeekMs,
   lastWeekMs |-> state.lastWeekMs,
   prevWeekFromBlock |-> serBlock(state.prevWeekFromBlock),
   prevWeekToBlock |-> serBlock(state.prevWeekToBlock),
   curWeekFromBlock |-> serBlock(state.curWeekFromBlock),
   prevWeekProcessedBlock |-> serBlock(state.prevWeekProcessedBlock),
   curWeekProcessedBlock |-> serBlock(state.curWeekProcessedBlock),
   latestBlock |-> serBlock(state.latestBlock),
   completePrevWeek |-> state.completePrevWeek = TRUE,
   completeCurWeek |-> state.completeCurWeek = TRUE,
   weeks |-> serWeeks(state.weeks),
   updatedAt |-> state.updatedAt]

deserializeState_p2(s) ==
  IF s = NULL THEN NULL
  ELSE
   [schemaVersion |-> Field(s, "schemaVersion", 0),
    currentWeekMs |-> Field(s, "currentWeekMs", 0),
    lastWeekMs |-> Field(s, "lastWeekMs", 0),
    prevWeekFromBlock |-> serBlock(Field(s, "prevWeekFromBlock", NOBLOCK)),
    prevWeekToBlock |-> serBlock(Field(s, "prevWeekToBlock", NOBLOCK)),
    curWeekFromBlock |-> serBlock(Field(s, "curWeekFromBlock", NOBLOCK)),
    prevWeekProcessedBlock |-> serBlock(Field(s, "prevWeekProcessedBlock", NOBLOCK)),
    curWeekProcessedBlock |-> serBlock(Field(s, "curWeekProcessedBlock", NOBLOCK)),
    latestBlock |-> serBlock(Field(s, "latestBlock", NOBLOCK)),
    completePrevWeek |-> Field(s, "completePrevWeek", FALSE) = TRUE,
    completeCurWeek |-> Field(s, "completeCurWeek", FALSE) = TRUE,
    weeks |-> desWeeks(Field(s, "weeks", <<>>)),
    updatedAt |-> Field(s, "updatedAt", 0)]

\* a time -> block lookup of backfillTwoWeeks: the explorer, else the binary search
\* over RPC block timestamps; [thrown, block, t]
resolveBlock(env, tsSec, latest, t) ==
  LET viaExplorer(x) ==
        IF x # NOBLOCK THEN [thrown |-> FALSE, block |-> x, t |-> t + env.callMs]
        ELSE IF env.xtime = "down"
          THEN [thrown |-> TRUE, block |-> NOBLOCK, t |-> t + 2 * env.callMs]
        ELSE LET viaSearch(b) ==
                   [thrown |-> FALSE, block |-> b.ans, t |-> t + (1 + b.calls) * env.callMs]
             IN viaSearch(findFirstBlockAtOrAfterTsSec(tsSec, latest))
  IN viaExplorer(getBlockByTimeBaseScan(env, tsSec, "after"))

\* if (x > 2000n) x -= 2000n
buffered(b) == IF b > SAFETY_BUFFER THEN b - SAFETY_BUFFER ELSE b

\* the state backfillTwoWeeks returns for the resolved boundaries curFrom, prevFrom
twoCursors_p2(curWeekMs, prevWeekMs, latest, curFrom, prevFrom, now) ==
  [schemaVersion |-> STATE_SCHEMA_VERSION_p2,
   currentWeekMs |-> curWeekMs,
   lastWeekMs |-> prevWeekMs,
   prevWeekFromBlock |-> prevFrom,
   prevWeekToBlock |-> IF curFrom > 0 THEN curFrom - 1 ELSE 0,
   curWeekFromBlock |-> curFrom,
   prevWeekProcessedBlock |-> IF prevFrom > 0 THEN prevFrom - 1 ELSE 0,
   curWeekProcessedBlock |-> IF curFrom > 0 THEN curFrom - 1 ELSE 0,
   latestBlock |-> latest,
   completePrevWeek |-> FALSE,
   completeCurWeek |-> FALSE,
   weeks |-> <<emptyWeekState(curWeekMs), emptyWeekState(prevWeekMs)>>,
   updatedAt |-> now]

backfillTwoWeeks_p2(env, now, t) ==
  LET curWeekMs == weekStartUtcMs(now)
      prevWeekMs == curWeekMs - WEEK_MS
      latest == env.latest
      build(curFrom, prevFrom, t2) ==
        [thrown |-> FALSE, t |-> t2, obs |-> NoObs,
         state |-> twoCursors_p2(curWeekMs, prevWeekMs, latest, curFrom, prevFrom, now)]
      withCur(rc) ==
        IF rc.thrown THEN Thrown(rc.t, NoObs)
        ELSE LET withPrev(rp) ==
                   IF rp.thrown THEN Thrown(rp.t, NoObs)
                   ELSE build(buffered(rc.block), buffered(rp.block), rp.t)
             IN withPrev(resolveBlock(env, prevWeekMs \div 1000, latest, rc.t))
  IN withCur(resolveBlock(env, curWeekMs \div 1000, latest, t + env.callMs))

\* a variant that keeps what the chunked scan had fetched before it threw
scanSegment_keepsPartial(env, fromBlock, toBlock, t, i) ==
  IF fromBlock > toBlock
    THEN [thrown |-> FALSE, logs |-> <<>>, lastScannedBlock |-> toBlock, complete |-> TRUE,
          t |-> t, i |-> i, via |-> "none", stops |-> {}]
  ELSE
    LET viaRpc(r) ==
          IF ~r.thrown THEN r @@ [via |-> "rpc"]
          ELSE LET viaScan(b) ==
                     [thrown |-> b.thrown, logs |-> r.logs \o b.logs, lastScannedBlock |-> toBlock,
                      complete |-> TRUE, t |-> b.t, i |-> r.i, via |-> "scan", stops |-> b.stops]
               IN viaScan(fetchLogsViaBaseScan(env, fromBlock, toBlock, r.t, TRUE, 25))
    IN viaRpc(fetchLogsRange(env, fromBlock, toBlock, stepInitial, hardMinStep, t, i))

\* [thrown, logs, lastScannedBlock, complete, t, i, via]
scanSegment(env, fromBlock, toBlock, t, i) ==
  IF fromBlock > toBlock
    THEN [thrown |-> FALSE, logs |-> <<>>, lastScannedBlock |-> toBlock, complete |-> TRUE,
          t |-> t, i |-> i, via |-> "none", stops |-> {}]
  ELSE
    LET viaRpc(r) ==
          IF ~r.thrown THEN r @@ [via |-> "rpc"]
          ELSE LET viaScan(b) ==
                     [thrown |-> b.thrown, logs |-> b.logs, lastScannedBlock |-> toBlock,
                      complete |-> TRUE, t |-> b.t, i |-> r.i, via |-> "scan", stops |-> b.stops]
               IN viaScan(fetchLogsViaBaseScan(env, fromBlock, toBlock, r.t, TRUE, 25))
    IN viaRpc(fetchLogsRange(env, fromBlock, toBlock, stepInitial, hardMinStep, t, i))

\* a variant that forgets the + 1
cursorFrom_rescan(processed, fromBlock) ==
  IF processed = NOBLOCK THEN fromBlock - 1 ELSE processed

cursorFrom(processed, fromBlock) ==
  (IF processed = NOBLOCK THEN fromBlock - 1 ELSE processed) + 1

\* a variant that does not look at the week
needsBackfill_p2_ignoresWeek(state, curWeekMs) ==
  \/ state = NULL
  \/ state.schemaVersion < STATE_SCHEMA_VERSION_p2
  \/ ~Truthy(state.curWeekFromBlock)
  \/ ~Truthy(state.prevWeekFromBlock)
  \/ ~Truthy(state.prevWeekToBlock)

needsBackfill_p2(state, curWeekMs) ==
  \/ state = NULL
  \/ state.schemaVersion < STATE_SCHEMA_VERSION_p2
  \/ state.currentWeekMs # curWeekMs
  \/ ~Truthy(state.curWeekFromBlock)
  \/ ~Truthy(state.prevWeekFromBlock)
  \/ ~Truthy(state.prevWeekToBlock)

\* a variant of step 1 that records the latest block whatever the fetch reported
advanceCur_p2_marksLatest(env, state, curWeekMs, latest, t) ==
  IF state.completeCurWeek THEN [thrown |-> FALSE, state |-> state, t |-> t, i |-> 1, reqs |-> <<>>]
  ELSE
    LET from == cursorFrom(state.curWeekProcessedBlock, state.curWeekFromBlock)
        apply(r) ==
          [thrown |-> r.thrown, t |-> r.t, i |-> r.i,
           reqs |-> <<Req("cur", from, latest, r, r.via)>>,
           state |-> [state EXCEPT
             !.weeks = applyLogsToWeekMap(@, curWeekMs, r.logs),
             !.curWeekProcessedBlock = latest,
             !.completeCurWeek = r.complete]]
    IN apply(scanSegment(env, from, latest, t, 1))

\* step 1 of incrementalUpdate: the current-week cursor
advanceCur_p2(env, state, curWeekMs, latest, t) ==
  IF state.completeCurWeek THEN [thrown |-> FALSE, state |-> state, t |-> t, i |-> 1, reqs |-> <<>>]
  ELSE
    LET from == cursorFrom(state.curWeekProcessedBlock, state.curWeekFromBlock)
        apply(r) ==
          [thrown |-> r.thrown, t |-> r.t, i |-> r.i,
           reqs |-> <<Req("cur", from, latest, r, r.via)>>,
           state |-> [state EXCEPT
             !.weeks = applyLogsToWeekMap(@, curWeekMs, r.logs),
             !.curWeekProcessedBlock = IF r.complete THEN latest ELSE r.lastScannedBlock,
             !.completeCurWeek = r.complete]]
    IN apply(scanSegment(env, from, latest, t, 1))

\* whether more than 250 ms are left before the deadline at elapsed time t
stepAt(t) == IF t < MAX_SERVERLESS_MS - 250 THEN "early" ELSE "late"

\* a variant of step 2 that keeps nothing of a fetch the deadline stopped
advancePrev_p2_restarts(env, state, prevWeekMs, t, i) ==
  IF ~(t < MAX_SERVERLESS_MS - 250 /\ ~state.completePrevWeek)
    THEN [thrown |-> FALSE, state |-> state, t |-> t, i |-> i, reqs |-> <<>>, at |-> stepAt(t)]
  ELSE
    LET prevTo == state.prevWeekToBlock
        from == cursorFrom(state.prevWeekProcessedBlock, state.prevWeekFromBlock)
        apply(r) ==
          [thrown |-> r.thrown, t |-> r.t, i |-> r.i, at |-> stepAt(t),
           reqs |-> <<Req("prev", from, prevTo, [r EXCEPT !.i = r.i - i + 1], r.via)>>,
           state |-> [state EXCEPT
             !.weeks = IF r.complete THEN applyLogsToWeekMap(@, prevWeekMs, r.logs) ELSE @,
             !.prevWeekProcessedBlock = IF r.complete THEN prevTo ELSE @,
             !.completePrevWeek = r.complete]]
    IN apply(scanSegment(env, from, prevTo, t, i))

\* a variant of step 2 that does not look at the time left
advancePrev_p2_ignoresBudget(env, state, prevWeekMs, t, i) ==
  IF state.completePrevWeek
    THEN [thrown |-> FALSE, state |-> state, t |-> t, i |-> i, reqs |-> <<>>, at |-> stepAt(t)]
  ELSE
    LET prevTo == state.prevWeekToBlock
        from == cursorFrom(state.prevWeekProcessedBlock, state.prevWeekFromBlock)
        apply(r) ==
          [thrown |-> r.thrown, t |-> r.t, i |-> r.i, at |-> stepAt(t),
           reqs |-> <<Req("prev", from, prevTo, [r EXCEPT !.i = r.i - i + 1], r.via)>>,
           state |-> [state EXCEPT
             !.weeks = applyLogsToWeekMap(@, prevWeekMs, r.logs),
             !.prevWeekProcessedBlock = IF r.complete THEN prevTo ELSE r.lastScannedBlock,
             !.completePrevWeek = r.complete]]
    IN apply(scanSegment(env, from, prevTo, t, i))

\* a variant of step 2 that merges each log into the bucket of its own week
advancePrev_p2_anyBucket(env, state, prevWeekMs, t, i) ==
  IF ~(t < MAX_SERVERLESS_MS - 250 /\ ~state.completePrevWeek)
    THEN [thrown |-> FALSE, state |-> state, t |-> t, i |-> i, reqs |-> <<>>, at |-> stepAt(t)]
  ELSE
    LET prevTo == state.prevWeekToBlock
        from == cursorFrom(state.prevWeekProcessedBlock, state.prevWeekFromBlock)
        apply(r) ==
          [thrown |-> r.thrown, t |-> r.t, i |-> r.i, at |-> stepAt(t),
           reqs |-> <<Req("prev", from, prevTo, [r EXCEPT !.i = r.i - i + 1], r.via)>>,
           state |-> [state EXCEPT
             !.weeks = mergeLogs(@, prevWeekMs + WEEK_MS, prevWeekMs, r.logs),
             !.prevWeekProcessedBlock = IF r.complete THEN prevTo ELSE r.lastScannedBlock,
             !.completePrevWeek = r.complete]]
    IN apply(scanSegment(env, from, prevTo, t, i))

\* step 2 of incrementalUpdate: the previous-week cursor
advancePrev_p2(env, state, prevWeekMs, t, i) ==
  IF ~(t < MAX_SERVERLESS_MS - 250 /\ ~state.completePrevWeek)
    THEN [thrown |-> FALSE, state |-> state, t |-> t, i |-> i, reqs |-> <<>>, at |-> stepAt(t)]
  ELSE
    LET prevTo == state.prevWeekToBlock
        from == cursorFrom(state.prevWeekProcessedBlock, state.prevWeekFromBlock)
        apply(r) ==
          [thrown |-> r.thrown, t |-> r.t, i |-> r.i, at |-> stepAt(t),
           reqs |-> <<Req("prev", from, prevTo, [r EXCEPT !.i = r.i - i + 1], r.via)>>,
           state |-> [state EXCEPT
             !.weeks = applyLogsToWeekMap(@, prevWeekMs, r.logs),
             !.prevWeekProcessedBlock = IF r.complete THEN prevTo ELSE r.lastScannedBlock,
             !.completePrevWeek = r.complete]]
    IN apply(scanSegment(env, from, prevTo, t, i))

\* the week maps kept and created before the cursors advance
twoWeeks_p2(weeks, curWeekMs, prevWeekMs) ==
  getOrMakeWeekMap(getOrMakeWeekMap(keepTwoWeeks(weeks, curWeekMs, prevWeekMs), curWeekMs), prevWeekMs)

\* [thrown, state, t, obs]
incrementalUpdate_p2(existingState, env, now) ==
  LET curWeekMs == weekStartUtcMs(now)
      prevWeekMs == curWeekMs - WEEK_MS
      latest == env.latest
      t0 == env.callMs
      cold == needsBackfill_p2(existingState, curWeekMs)
      advance(bf) ==
        LET obs0 == [NoObs EXCEPT !.cold = cold, !.coldState = IF cold THEN bf.state ELSE NULL,
                                  !.resolved = cold]
            afterCur(c) ==
              IF c.thrown THEN Thrown(c.t, [obs0 EXCEPT !.reqs = c.reqs])
              ELSE LET afterPrev(p) ==
                         IF p.thrown
                           \* the state in memory holds what step 1 merged
                           THEN [Thrown(p.t, [obs0 EXCEPT !.reqs = c.reqs \o p.reqs,
                                                          !.prevAt = p.at])
                                   EXCEPT !.state = c.state]
                         ELSE [thrown |-> FALSE, t |-> p.t,
                               obs |-> [obs0 EXCEPT !.reqs = c.reqs \o p.reqs, !.prevAt = p.at],
                               state |-> [p.state EXCEPT !.weeks = pruneWeeks(@, PRUNE_KEEP),
                                                         !.updatedAt = now]]
                   IN afterPrev(advancePrev_p2(env, c.state, prevWeekMs, c.t, c.i))
        IN IF bf.thrown THEN Thrown(bf.t, obs0)
           ELSE afterCur(advanceCur_p2(
                  env,
                  [bf.state EXCEPT !.latestBlock = latest, !.currentWeekMs = curWeekMs,
                                   !.lastWeekMs = prevWeekMs,
                                   !.weeks = twoWeeks_p2(@, curWeekMs, prevWeekMs)],
                  curWeekMs, latest, bf.t))
  IN IF latest = NOBLOCK THEN Thrown(t0, NoObs)
     ELSE IF cold THEN advance(backfillTwoWeeks_p2(env, now, t0))
     ELSE advance([thrown |-> FALSE, state |-> existingState, t |-> t0, obs |-> NoObs])

(***************************************************************************)
(* api/leaderboard.js: one cursor that records its progress                 *)
(***************************************************************************)
serializeState_api(state) ==
  [schemaVersion |-> IF state.schemaVersion # 0 THEN state.schemaVersion ELSE STATE_SCHEMA_VERSION_api,
   backfillFromBlock |-> serBlock(state.backfillFromBlock),
   anchorTsSec |-> state.anchorTsSec,
   currentWeekMs |-> state.currentWeekMs,
   lastWeekMs |-> state.lastWeekMs,
   lastProcessedBlock |-> serBlock(state.lastProcessedBlock),
   weeks |-> serWeeks(state.weeks),
   updatedAt |-> state.updatedAt]

deserializeState_api(s) ==
  IF s = NULL THEN NULL
  ELSE
   [schemaVersion |-> Field(s, "schemaVersion", 0),
    backfillFromBlock |-> serBlock(Field(s, "backfillFromBlock", NOBLOCK)),
    anchorTsSec |-> Field(s, "anchorTsSec", 0),
    currentWeekMs |-> Field(s, "currentWeekMs", 0),
    lastWeekMs |-> Field(s, "lastWeekMs", 0),
    lastProcessedBlock |-> serBlock(Field(s, "lastProcessedBlock", NOBLOCK)),
    weeks |-> desWeeks(Field(s, "weeks", <<>>)),
    updatedAt |-> Field(s, "updatedAt", 0)]

\* the start of the backfill range: the explorer, else the binary search less the
\* safety buffer, else a wide window; [block, t]
anchorBlock_api(env, anchorTsSec, latest, t) ==
  LET viaExplorer(x) ==
        IF x # NOBLOCK THEN [block |-> x, t |-> t + env.callMs]
        ELSE IF env.xtime = "down"
          THEN [block |-> IF latest > WINDOW_api THEN latest - WINDOW_api ELSE 0,
                t |-> t + 2 * env.callMs]
        ELSE LET viaSearch(b) ==
                   [block |-> IF b.ans > SAFETY_BUFFER THEN b.ans - SAFETY_BUFFER ELSE b.ans,
                    t |-> t + (1 + b.calls) * env.callMs]
             IN viaSearch(findFirstBlockAtOrAfterTsSec(anchorTsSec, latest))
  IN viaExplorer(getBlockByTimeBaseScan(env, anchorTsSec, "before"))

\* explorer first, chunked RPC scan when it throws; [thrown, logs, lastScannedBlock, complete, t, via]
backfillScan_api(env, fromBlock, latest, t) ==
  LET viaScan(b) ==
        IF ~b.thrown
          THEN [thrown |-> FALSE, logs |-> b.logs, lastScannedBlock |-> latest,
                complete |-> TRUE, t |-> b.t, via |-> "scan", i |-> 1, stops |-> {}]
        ELSE LET viaRpc(r) ==
                   [thrown |-> r.thrown, logs |-> r.logs, lastScannedBlock |-> r.lastScannedBlock,
                    complete |-> r.complete, t |-> r.t, via |-> "rpc", i |-> r.i,
                    stops |-> b.stops \cup r.stops]
             IN viaRpc(fetchLogsRange(env, fromBlock, latest, stepInitial, hardMinStep, b.t, 1))
  IN viaScan(fetchLogsViaBaseScan(env, fromBlock, latest, t, TRUE, 120))

backfillTwoWeeks_api(env, now, t) ==
  LET curWeekMs == weekStartUtcMs(now)
      prevWeekMs == curWeekMs - WEEK_MS
      latest == env.latest
      anchorTsSec == (prevWeekMs \div 1000) - 3600
      fresh(fromBlock) ==
        [schemaVersion |-> STATE_SCHEMA_VERSION_api,
         backfillFromBlock |-> fromBlock,
         anchorTsSec |-> anchorTsSec,
         currentWeekMs |-> curWeekMs,
         lastWeekMs |-> prevWeekMs,
         lastProcessedBlock |-> NOBLOCK,
         weeks |-> <<emptyWeekState(curWeekMs), emptyWeekState(prevWeekMs)>>,
         updatedAt |-> now]
      merge(state, r) ==
        LET obs == [NoObs EXCEPT !.cold = TRUE, !.coldState = state, !.resolved = TRUE,
                      !.reqs = <<Req("cur", state.backfillFromBlock, latest, r, r.via)>>]
        IN IF r.thrown THEN Thrown(r.t, obs)
           ELSE [thrown |-> FALSE, t |-> r.t, obs |-> obs,
                 state |-> [state EXCEPT
                   !.weeks = pruneWeeks(mergeLogs(@, curWeekMs, prevWeekMs, r.logs), PRUNE_KEEP),
                   !.lastProcessedBlock = IF r.complete THEN latest ELSE r.lastScannedBlock]]
      scan(a) == merge(fresh(a.block), backfillScan_api(env, a.block, latest, a.t))
  IN scan(anchorBlock_api(env, anchorTsSec, latest, t + env.callMs))

\* chunked RPC scan first, the explorer when it throws
incrementalScan_api(env, from, latest, t) ==
  LET viaRpc(r) ==
        IF ~r.thrown
          THEN [thrown |-> FALSE, logs |-> r.logs, lastScannedBlock |-> r.lastScannedBlock,
                complete |-> r.complete, t |-> r.t, via |-> "rpc", i |-> r.i, stops |-> r.stops]
        ELSE LET viaScan(b) ==
                   [thrown |-> b.thrown, logs |-> b.logs, lastScannedBlock |-> latest,
                    complete |-> TRUE, t |-> b.t, via |-> "scan", i |-> r.i, stops |-> b.stops]
             IN viaScan(fetchLogsViaBaseScan(env, from, latest, r.t, TRUE, 120))
  IN viaRpc(fetchLogsRange(env, from, latest, stepInitial, hardMinStep, t, 1))

\* a variant that does not look at the schema version
needsBackfill_api_ignoresSchema(state, curWeekMs) ==
  \/ state = NULL
  \/ ~Truthy(state.lastProcessedBlock)
  \/ state.currentWeekMs # curWeekMs

needsBackfill_api(state, curWeekMs) ==
  \/ state = NULL
  \/ ~Truthy(state.lastProcessedBlock)
  \/ state.currentWeekMs # curWeekMs
  \/ state.schemaVersion < STATE_SCHEMA_VERSION_api

\* [thrown, state, t, obs]
incrementalUpdate_api(existingState, env, now) ==
  LET curWeekMs == weekStartUtcMs(now)
      prevWeekMs == curWeekMs - WEEK_MS
      latest == env.latest
      t0 == env.callMs
      merge(state, from, r) ==
        LET obs == [NoObs EXCEPT !.reqs = <<Req("cur", from, latest, r, r.via)>>]
        IN IF r.thrown THEN Thrown(r.t, obs)
           ELSE [thrown |-> FALSE, t |-> r.t, obs |-> obs,
                 state |-> [state EXCEPT
                   !.weeks = pruneWeeks(keepTwoWeeks(mergeLogs(@, curWeekMs, prevWeekMs, r.logs),
                                                     curWeekMs, prevWeekMs), PRUNE_KEEP),
                   !.lastProcessedBlock = IF r.complete THEN latest ELSE r.lastScannedBlock,
                   !.updatedAt = now]]
      continue(state) ==
        IF state.lastProcessedBlock + 1 > latest
          THEN [thrown |-> FALSE, t |-> t0, obs |-> NoObs,
                state |-> [state EXCEPT !.updatedAt = now]]
        ELSE merge(state, state.lastProcessedBlock + 1,
                   incrementalScan_api(env, state.lastProcessedBlock + 1, latest, t0))
  IN IF latest = NOBLOCK THEN Thrown(t0, NoObs)
     ELSE IF needsBackfill_api(existingState, curWeekMs) THEN backfillTwoWeeks_api(env, now, t0)
     ELSE continue([existingState EXCEPT !.currentWeekMs = curWeekMs, !.lastWeekMs = prevWeekMs])

(***************************************************************************)
(* part_001: one cursor, no progress record, week rollover by snapshot      *)
(***************************************************************************)
serializeState_p1(state) ==
  [currentWeekMs |-> state.currentWeekMs,
   lastWeekMs |-> state.lastWeekMs,
   lastProcessedBlock |-> serBlock(state.lastProcessedBlock),
   weeks |-> serWeeks(state.weeks),
   updatedAt |-> state.updatedAt]

deserializeState_p1(s) ==
  IF s = NULL THEN NULL
  ELSE
   [currentWeekMs |-> Field(s, "currentWeekMs", 0),
    lastWeekMs |-> Field(s, "lastWeekMs", 0),
    lastProcessedBlock |-> serBlock(Field(s, "lastProcessedBlock", NOBLOCK)),
    weeks |-> desWeeks(Field(s, "weeks", <<>>)),
    updatedAt |-> Field(s, "updatedAt", 0)]

\* explorer first, chunked RPC scan when it throws.  Neither reports how far it
\* got: lastScannedBlock and complete are what really happened, not what the
\* code sees.
backfillScan_p1(env, fromBlock, latest, t) ==
  LET viaScan(b) ==
        IF ~b.thrown
          THEN [thrown |-> FALSE, logs |-> b.logs,
                lastScannedBlock |-> IF b.complete THEN latest ELSE fromBlock - 1,
                complete |-> b.complete, t |-> b.t, via |-> "scan", i |-> 1, stops |-> b.stops]
        ELSE LET viaRpc(r) ==
                   [thrown |-> r.thrown, logs |-> r.logs, lastScannedBlock |-> r.lastScannedBlock,
                    complete |-> r.complete, t |-> r.t, via |-> "rpc", i |-> r.i,
                    stops |-> b.stops \cup r.stops]
             IN viaRpc(fetchLogsRange(env, fromBlock, latest, stepInitial, hardMinStep, b.t, 1))
  IN viaScan(fetchLogsViaBaseScan(env, fromBlock, latest, t, FALSE, 120))

backfillTwoWeeks_p1(env, now, t) ==
  LET curWeekMs == weekStartUtcMs(now)
      prevWeekMs == curWeekMs - WEEK_MS
      latest == env.latest
      fromBlock == IF latest > WINDOW_p1 THEN latest - WINDOW_p1 ELSE 0
      state == [currentWeekMs |-> curWeekMs,
                lastWeekMs |-> prevWeekMs,
                lastProcessedBlock |-> NOBLOCK,
                weeks |-> <<emptyWeekState(curWeekMs), emptyWeekState(prevWeekMs)>>,
                updatedAt |-> now]
      merge(r) ==
        LET obs == [NoObs EXCEPT !.cold = TRUE, !.coldState = state,
                                 !.reqs = <<Req("cur", fromBlock, latest, r, r.via)>>]
        IN IF r.thrown THEN Thrown(r.t, obs)
           ELSE [thrown |-> FALSE, t |-> r.t, obs |-> obs,
                 state |-> [state EXCEPT
                   !.weeks = pruneWeeks(mergeLogs(@, curWeekMs, prevWeekMs, r.logs), PRUNE_KEEP_p1),
                   !.lastProcessedBlock = latest]]
  IN merge(backfillScan_p1(env, fromBlock, latest, t + env.callMs))

incrementalScan_p1(env, from, latest, t) ==
  LET viaRpc(r) ==
        IF ~r.thrown
          THEN [thrown |-> FALSE, logs |-> r.logs, lastScannedBlock |-> r.lastScannedBlock,
                complete |-> r.complete, t |-> r.t, via |-> "rpc", i |-> r.i, stops |-> r.stops]
        ELSE LET viaScan(b) ==
                   [thrown |-> b.thrown, logs |-> b.logs,
                    lastScannedBlock |-> IF b.complete THEN latest ELSE from - 1,
                    complete |-> b.complete, t |-> b.t, via |-> "scan", i |-> r.i,
                    stops |-> b.stops]
             IN viaScan(fetchLogsViaBaseScan(env, from, latest, r.t, FALSE, 120))
  IN viaRpc(fetchLogsRange(env, from, latest, stepInitial, hardMinStep, t, 1))

\* the week changed by exactly one week: the old current map becomes the last-week map
rollover_p1(state, curWeekMs, prevWeekMs) ==
  [state EXCEPT
    !.currentWeekMs = curWeekMs,
    !.lastWeekMs = prevWeekMs,
    !.weeks = <<[weekMs |-> curWeekMs, map |-> <<>>],
                [weekMs |-> prevWeekMs, map |-> weekMap(state.weeks, state.currentWeekMs)]>>]

\* [thrown, state, t, obs]
incrementalUpdate_p1(existingState, env, now) ==
  LET curWeekMs == weekStartUtcMs(now)
      prevWeekMs == curWeekMs - WEEK_MS
      latest == env.latest
      t0 == env.callMs
      merge(state, obs0, from, r) ==
        LET obs == [obs0 EXCEPT !.reqs = <<Req("cur", from, latest, r, r.via)>>]
        IN IF r.thrown THEN Thrown(r.t, obs)
           ELSE [thrown |-> FALSE, t |-> r.t, obs |-> obs,
                 state |-> [state EXCEPT
                   !.weeks = pruneWeeks(keepTwoWeeks(mergeLogs(@, curWeekMs, prevWeekMs, r.logs),
                                                     curWeekMs, prevWeekMs), PRUNE_KEEP_p1),
                   !.lastProcessedBlock = latest,
                   !.updatedAt = now]]
      continue(state, obs0) ==
        IF state.lastProcessedBlock + 1 > latest
          THEN [thrown |-> FALSE, t |-> t0, obs |-> obs0,
                state |-> [state EXCEPT !.updatedAt = now]]
        ELSE merge(state, obs0, state.lastProcessedBlock + 1,
                   incrementalScan_p1(env, state.lastProcessedBlock + 1, latest, t0))
      rolledOver(state) ==
        continue(state, [NoObs EXCEPT !.rolled = TRUE, !.rolledState = state])
  IN IF latest = NOBLOCK THEN Thrown(t0, NoObs)
     ELSE IF existingState = NULL THEN backfillTwoWeeks_p1(env, now, t0)
     ELSE IF ~Truthy(existingState.lastProcessedBlock) THEN backfillTwoWeeks_p1(env, now, t0)
     ELSE IF existingState.currentWeekMs # curWeekMs /\ existingState.currentWeekMs # prevWeekMs
       THEN backfillTwoWeeks_p1(env, now, t0)
     ELSE IF existingState.currentWeekMs # curWeekMs
       THEN rolledOver(rollover_p1(existingState, curWeekMs, prevWeekMs))
     ELSE continue([existingState EXCEPT !.currentWeekMs = curWeekMs, !.lastWeekMs = prevWeekMs],
                   NoObs)

(***************************************************************************)
(* Response formatter                                                      *)
(***************************************************************************)
top(arr) == SubSeq(arr, 1, Min(MAX_TOP, Len(arr)))

formatResponsePayload_p2(state) ==
  LET curMap == weekMap(state.weeks, state.currentWeekMs)
      prevMap == weekMap(state.weeks, state.lastWeekMs)
  IN [ok |-> TRUE,
      weekStart |-> state.currentWeekMs,
      prevWeekStart |-> state.lastWeekMs,
      weekly |-> top(sortMapToArray(curMap)),
      lastWeek |-> top(sortMapToArray(prevMap)),
      meta |-> [schemaVersion |-> IF state.schemaVersion # 0 THEN state.schemaVersion
                                  ELSE STATE_SCHEMA_VERSION_p2,
                weeklyUsers |-> Len(curMap),
                lastWeekUsers |-> Len(prevMap),
                latestBlock |-> serBlock(state.latestBlock),
                curWeekFromBlock |-> serBlock(state.curWeekFromBlock),
                prevWeekFromBlock |-> serBlock(state.prevWeekFromBlock),
                prevWeekToBlock |-> serBlock(state.prevWeekToBlock),
                curWeekProcessedBlock |-> serBlock(state.curWeekProcessedBlock),
                prevWeekProcessedBlock |-> serBlock(state.prevWeekProcessedBlock),
                completeCurWeek |-> state.completeCurWeek = TRUE,
                completePrevWeek |-> state.completePrevWeek = TRUE,
                complete |-> state.completeCurWeek = TRUE /\ state.completePrevWeek = TRUE,
                updatedAt |-> state.updatedAt]]

formatResponsePayload_api(state) ==
  LET curMap == weekMap(state.weeks, state.currentWeekMs)
      prevMap == weekMap(state.weeks, state.lastWeekMs)
  IN [ok |-> TRUE,
      weekStart |-> state.currentWeekMs,
      prevWeekStart |-> state.lastWeekMs,
      weekly |-> top(sortMapToArray(curMap)),
      lastWeek |-> top(sortMapToArray(prevMap)),
      meta |-> [schemaVersion |-> IF state.schemaVersion # 0 THEN state.schemaVersion
                                  ELSE STATE_SCHEMA_VERSION_api,
                weeklyUsers |-> Len(curMap),
                lastWeekUsers |-> Len(prevMap),
                lastProcessedBlock |-> serBlock(state.lastProcessedBlock),
                updatedAt |-> state.updatedAt]]

formatResponsePayload_p1(state) ==
  LET curMap == weekMap(state.weeks, state.currentWeekMs)
      prevMap == weekMap(state.weeks, state.lastWeekMs)
  IN [ok |-> TRUE,
      weekStart |-> state.currentWeekMs,
      prevWeekStart |-> state.lastWeekMs,
      windows |-> [current |-> [startMs |-> state.currentWeekMs,
                                endMs |-> state.currentWeekMs + WEEK_MS],
                   previous |-> [startMs |-> state.lastWeekMs,
                                 endMs |-> state.lastWeekMs + WEEK_MS]],
      weekly |-> top(sortMapToArray(curMap)),
      lastWeek |-> top(sortMapToArray(prevMap)),
      meta |-> [lastProcessedBlock |-> serBlock(state.lastProcessedBlock),
                updatedAt |-> state.updatedAt,
                counts |-> [weeklyPlayers |-> Len(curMap), lastWeekPlayers |-> Len(prevMap)]]]

(***************************************************************************)
(* Inputs                                                                  *)
(***************************************************************************)
Revs == {"p1", "api", "p2"}

\* a lagging RPC endpoint answers eth_blockNumber this many blocks behind the head
LagBlocks == 5

\* Monday 00:00:01, a little over two days, five days into the week
AtStart == 2 * 500
MidWeek == 6003 * BlockTimeSec * 1000
LateWeek == 5 * 24 * 60 * 60 * 1000
Instants == {W0 + LateWeek, W1 + MidWeek, W1 + LateWeek, W2 + AtStart}

\* update invocations followed from the cold start
MaxInvocations == 3

Env(callMs, rpc, xlogs, xtime, lag) ==
  [callMs |-> callMs, rpc |-> rpc, xlogs |-> xlogs, xtime |-> xtime, lag |-> lag]

\* lag: "head" eth_blockNumber answers the head, "behind" LagBlocks less, "throws" it fails
Profiles ==
  { Env(500, <<>>, "ok", "ok", "head"),
    Env(500, <<>>, "ok", "ok", "behind"),
    Env(5000, <<>>, "ok", "ok", "head"),
    Env(9000, <<>>, "ok", "ok", "head"),
    Env(500, <<"freetier">>, "ok", "ok", "head"),
    Env(500, <<"freetier">>, "error", "ok", "head"),
    Env(500, <<"freetier">>, "ratelimit", "ok", "head"),
    Env(500, <<"ok", "ok", "freetier">>, "error", "ok", "head"),
    Env(1500, <<"ok", "freetier">>, "ok", "ok", "head"),
    Env(1500, <<"toolarge", "toolarge", "toolarge">>, "ok", "ok", "head"),
    Env(1500, <<"ratelimit", "unknown">>, "ok", "ok", "behind"),
    Env(500, <<>>, "ok", "error", "head"),
    Env(500, <<>>, "error", "down", "head"),
    Env(500, <<>>, "ok", "ok", "throws") }

\* What else can fail in one invocation, outside the chain sources:
\*   readThrows        store.get of the state key rejects
\*   lockThrows        store.set of the lock key rejects
\*   namesThrow        names=1 and the name lookup rejects (fetch fails, or the body
\*                     of an OK answer does not parse)
\*   namesNotOk        names=1 and the name lookup is answered with a non-OK status
\*   stateWriteThrows  store.set of the state key rejects
\*   respWriteThrows   store.set of the response key rejects
\*   delThrows         store.del of the lock key rejects
Faults ==
  {"readThrows", "lockThrows", "namesThrow", "namesNotOk", "stateWriteThrows", "respWriteThrows",
   "delThrows"}

FaultProfiles ==
  { <<Env(500, <<>>, "ok", "ok", "head"), f>> : f \in Faults }
    \cup { <<Env(500, <<"freetier">>, "error", "ok", "head"), "delThrows">> }

AtInstant(p, now, fault) ==
  p @@ [head |-> HeadAt(now),
        latest |-> CASE p.lag = "head" -> HeadAt(now)
                     [] p.lag = "behind" -> HeadAt(now) - LagBlocks
                     [] OTHER -> NOBLOCK,
        fault |-> fault]

Envs(now) ==
  { AtInstant(p, now, "none") : p \in Profiles }
    \cup { AtInstant(fp[1], now, fp[2]) : fp \in FaultProfiles }

(***************************************************************************)
(* Request orchestrator                                                    *)
(***************************************************************************)
deserializeState(s) ==
  CASE rev = "p1" -> deserializeState_p1(s)
    [] rev = "api" -> deserializeState_api(s)
    [] OTHER -> deserializeState_p2(s)

incrementalUpdate(state, env, now) ==
  CASE rev = "p1" -> incrementalUpdate_p1(state, env, now)
    [] rev = "api" -> incrementalUpdate_api(state, env, now)
    [] OTHER -> incrementalUpdate_p2(state, env, now)

serializeState(state) ==
  CASE rev = "p1" -> serializeState_p1(state)
    [] rev = "api" -> serializeState_api(state)
    [] OTHER -> serializeState_p2(state)

formatResponsePayload(state) ==
  CASE rev = "p1" -> formatResponsePayload_p1(state)
    [] rev = "api" -> formatResponsePayload_api(state)
    [] OTHER -> formatResponsePayload_p2(state)

\* What a deployment can find under its state key before its first update:
\* nothing, or the snapshot an earlier revision left there (part_001 and
\* api/leaderboard.js share the key prefix; part_002 tests for a schema below 5).
Healthy(now) == Env(500, <<>>, "ok", "ok", "head") @@ [head |-> HeadAt(now), latest |-> HeadAt(now)]

LegacySnapshot_p1 ==
  serializeState_p1(incrementalUpdate_p1(NULL, Healthy(W0 + LateWeek), W0 + LateWeek).state)

LegacySnapshot_api ==
  serializeState_api(incrementalUpdate_api(NULL, Healthy(W0 + LateWeek), W0 + LateWeek).state)

InitialStore(r) ==
  CASE r = "p1" -> {NULL}
    [] r = "api" -> {NULL, LegacySnapshot_p1}
    [] OTHER -> {NULL, LegacySnapshot_api}

RECURSIVE coverLoop(_, _, _, _)
coverLoop(c, reqs, cursor, k) ==
  IF k > Len(reqs) THEN c
  ELSE IF reqs[k].cursor # cursor THEN coverLoop(c, reqs, cursor, k + 1)
  ELSE coverLoop(Extend(c, reqs[k].from, reqs[k].lastScannedBlock), reqs, cursor, k + 1)

\* the ranges merged into the state an update returns
Covered(obs, cursor) ==
  coverLoop(IF obs.cold THEN NoCover ELSE scanned[cursor], obs.reqs, cursor, 1)

\* the cursors of a state, whatever the revision: the single cursor of part_001
\* and api/leaderboard.js is the cursor "cur"
curProcessed(state) ==
  IF rev = "p2" THEN Field(state, "curWeekProcessedBlock", NOBLOCK)
  ELSE Field(state, "lastProcessedBlock", NOBLOCK)

prevProcessed(state) ==
  IF rev = "p2" THEN Field(state, "prevWeekProcessedBlock", NOBLOCK) ELSE NOBLOCK

\* what an update found in the store (observation only)
NoBase ==
  [present |-> FALSE, currentWeekMs |-> 0, schemaVersion |-> 0,
   cur |-> NOBLOCK, prev |-> NOBLOCK, curDone |-> FALSE, prevDone |-> FALSE, weeks |-> <<>>]

Base(state) ==
  IF state = NULL THEN NoBase
  ELSE [present |-> TRUE,
        currentWeekMs |-> state.currentWeekMs,
        schemaVersion |-> Field(state, "schemaVersion", 0),
        cur |-> curProcessed(state),
        prev |-> prevProcessed(state),
        curDone |-> Field(state, "completeCurWeek", FALSE),
        prevDone |-> Field(state, "completePrevWeek", FALSE),
        weeks |-> state.weeks]

\* the HTTP reply of an invocation: res.status(...).send(JSON.stringify(body))
NoReply == [status |-> 0, body |-> NULL]
okReply(resp) == [status |-> 200, body |-> resp]
\* a variant that reports the failure at the transport level
errorEnvelope_status500(message) == [status |-> 500, body |-> [ok |-> FALSE, error |-> message]]

\* the catch block of the handler
errorEnvelope(message) == [status |-> 200, body |-> [ok |-> FALSE, error |-> message]]

\* store.set(lockKey, "1", {nx: true, ex: ttl}) on a lock key that is set (held) or
\* not: [gotLock, lock], lock being whether the key is set afterwards. With no
\* store configured ("noStore") the key is not touched.
storeAcquireLock(held, fault) ==
  IF fault = "noStore" THEN [gotLock |-> TRUE, lock |-> held]
  ELSE IF fault = "lockThrows" THEN [gotLock |-> TRUE, lock |-> held]
  ELSE [gotLock |-> ~held, lock |-> TRUE]

\* a variant that leaves the key alone
storeReleaseLock_noop(lock, fault) == lock

\* store.del(lockKey), a rejection swallowed: whether the key is set afterwards
storeReleaseLock(lock, fault) == IF fault \in {"noStore", "delThrows"} THEN lock ELSE FALSE

\* a variant that saves what was merged in memory before the update threw
writes_keepsPartial(u, fault) ==
  IF u.thrown THEN [state |-> u.state # NULL, resp |-> FALSE]
  ELSE IF fault = "namesThrow" /\ u.t < MAX_SERVERLESS_MS - 500
    THEN [state |-> FALSE, resp |-> FALSE]
  ELSE IF fault = "stateWriteThrows" THEN [state |-> FALSE, resp |-> FALSE]
  ELSE IF fault = "respWriteThrows" THEN [state |-> TRUE, resp |-> FALSE]
  ELSE [state |-> TRUE, resp |-> TRUE]

\* the name lookup after an update that returned or threw u: "none" it was not made
\* or it returned names, "notOk" it was answered with a non-OK status and returned
\* no name, "threw" it rejected
fetchNamesFromNeynar(u, fault) ==
  IF u.thrown \/ ~(u.t < MAX_SERVERLESS_MS - 500) THEN "none"
  ELSE IF fault = "namesThrow" THEN "threw"
  ELSE IF fault = "namesNotOk" THEN "notOk"
  ELSE "none"

\* which of the two keys the handler writes after an update that returned or
\* threw u: the first throw of the try block ends it
writes(u, fault) ==
  IF u.thrown THEN [state |-> FALSE, resp |-> FALSE]
  ELSE IF fetchNamesFromNeynar(u, fault) = "threw" THEN [state |-> FALSE, resp |-> FALSE]
  ELSE IF fault = "stateWriteThrows" THEN [state |-> FALSE, resp |-> FALSE]
  ELSE IF fault = "respWriteThrows" THEN [state |-> TRUE, resp |-> FALSE]
  ELSE [state |-> TRUE, resp |-> TRUE]

\* a variant that leaves the response key as it was
setCachedResponse_skipped(cached, resp) == cached

\* storeSetJson(KV_RESP_KEY, resp, CACHE_TTL_SECONDS): the value of the key afterwards
setCachedResponse(cached, resp) == resp

\* what the latest invocation did with the lock: acquired, its set created the key;
\* releaseTried, it called storeReleaseLock; released, the del went through
NoLock == [acquired |-> FALSE, releaseTried |-> FALSE, released |-> FALSE]

\* no function is being applied on its own
NoProbe == [op |-> "none"]

\* no invocation is followed await by await
NoCalls == <<>>

Init ==
  /\ rev \in Revs
  /\ clock = W0
  /\ invocations = 0
  /\ kvState \in InitialStore(rev)
  /\ kvResp = NULL
  /\ kvLock = FALSE
  /\ last = [kind |-> "none", latest |-> NOBLOCK, obs |-> NoObs, base |-> NoBase,
             lock |-> NoLock, names |-> "none", reply |-> NoReply]
  /\ scanned = [cur |-> NoCover, prev |-> NoCover]
  /\ probe = NoProbe
  /\ calls = NoCalls

\* a variant of the fast path that releases the lock on its way out
ServeCached_releases ==
  /\ kvResp # NULL
  /\ kvLock' = FALSE
  /\ last' = [kind |-> "cached", latest |-> NOBLOCK, obs |-> NoObs, base |-> NoBase,
              lock |-> NoLock, names |-> "none", reply |-> okReply(kvResp)]
  /\ UNCHANGED <<rev, clock, invocations, kvState, kvResp, scanned, probe, calls>>

\* the fast path: a cached response is served, nothing else happens
ServeCached ==
  /\ kvResp # NULL
  /\ last' = [kind |-> "cached", latest |-> NOBLOCK, obs |-> NoObs, base |-> NoBase,
              lock |-> NoLock, names |-> "none", reply |-> okReply(kvResp)]
  /\ UNCHANGED <<rev, clock, invocations, kvState, kvResp, kvLock, scanned, probe, calls>>

\* the update path: a request with refresh=1, or one that finds no cached response.
\* clock and invocations follow the invocations that got as far as the chain and
\* whose outcome was not lost to a failure of the store or of the name lookup.
handler(now, env) ==
  /\ LET lk == storeAcquireLock(kvLock, env.fault)
         lock == [acquired |-> env.fault # "lockThrows" /\ ~kvLock, releaseTried |-> TRUE,
                  released |-> env.fault # "delThrows"]
         \* the catch block after a failure of the store or of the name lookup
         lost(message) ==
           /\ last' = [kind |-> "fault", latest |-> NOBLOCK, obs |-> NoObs, base |-> NoBase,
                       lock |-> lock, names |-> IF message = "names" THEN "threw" ELSE "none",
                       reply |-> errorEnvelope(message)]
           /\ UNCHANGED <<kvState, kvResp, scanned, clock, invocations>>
         kept(state, u, w) ==
           /\ clock' = now
           /\ invocations' = invocations + 1
           /\ IF w.state
                THEN /\ kvState' = serializeState(u.state)
                     /\ scanned' = [cur |-> Covered(u.obs, "cur"), prev |-> Covered(u.obs, "prev")]
              ELSE UNCHANGED <<kvState, scanned>>
           /\ IF w.resp THEN kvResp' = setCachedResponse(kvResp, formatResponsePayload(u.state))
              ELSE UNCHANGED kvResp
           /\ last' = [kind |-> IF u.thrown THEN "error" ELSE IF w.resp THEN "updated" ELSE "half",
                       latest |-> env.latest, obs |-> u.obs, base |-> Base(state), lock |-> lock,
                       names |-> fetchNamesFromNeynar(u, env.fault),
                       reply |-> IF u.thrown THEN errorEnvelope("update")
                                 ELSE IF w.resp THEN okReply(formatResponsePayload(u.state))
                                 ELSE errorEnvelope("store")]
         finish(state, u, w) ==
           IF ~u.thrown /\ ~w.state
             THEN lost(IF env.fault = "namesThrow" THEN "names" ELSE "store")
           ELSE kept(state, u, w)
         decide(state, u) == finish(state, u, writes(u, env.fault))
         run(state) == decide(state, incrementalUpdate(state, env, now))
     IN /\ kvLock' = storeReleaseLock(lk.lock, env.fault)
        /\ IF env.fault = "readThrows" THEN lost("store")
           ELSE run(deserializeState(kvState))
  /\ UNCHANGED <<rev, probe, calls>>

Update(now, env) ==
  /\ invocations < MaxInvocations
  /\ now >= clock
  /\ handler(now, env)

\* a key of the store expires (TTL) or is evicted
Expire ==
  /\ \/ kvResp # NULL /\ kvResp' = NULL /\ UNCHANGED <<kvState, scanned, kvLock>>
     \/ kvState # NULL /\ kvState' = NULL /\ scanned' = [cur |-> NoCover, prev |-> NoCover]
                       /\ UNCHANGED <<kvResp, kvLock>>
     \/ kvLock /\ kvLock' = FALSE /\ UNCHANGED <<kvState, kvResp, scanned>>
  /\ last' = [kind |-> "expired", latest |-> NOBLOCK, obs |-> NoObs, base |-> NoBase,
              lock |-> NoLock, names |-> "none", reply |-> NoReply]
  /\ UNCHANGED <<rev, clock, invocations, probe, calls>>

Next ==
  \/ ServeCached
  \/ \E now \in Instants : \E env \in Envs(now) : Update(now, env)
  \/ Expire

Spec == Init /\ [][Next]_vars

(***************************************************************************)
(* The decoders and the pruning applied on their own: Init draws an input,  *)
(* one action applies the function and records what it returned.            *)
(***************************************************************************)
Zeros(n) == [i \in 1..n |-> 0]

RECURSIVE hexDigits(_)
hexDigits(n) == IF n < 16 THEN <<n>> ELSE hexDigits(n \div 16) \o <<n % 16>>

\* a uint256, given by its hex digits, as 32 bytes big endian
word(v) == Zeros(WordLen - Len(v)) \o v

\* bytes padded on the right to a multiple of 32
padded(bytes) == bytes \o Zeros((WordLen - (Len(bytes) % WordLen)) % WordLen)

UintMax == [i \in 1..WordLen |-> 15]
UintHigh == <<8>> \o Zeros(WordLen - 1)

\* encodeAbiParameters([uint256, uint256], [points, week])
encodePayload(points, week) == word(points) \o word(week)

\* layout A, the event data of (bytes): [offset][length][bytes...]
dataA(lengthWord, bytes) == Str(<<0, CharX>> \o word(hexDigits(32)) \o lengthWord \o bytes)

\* layout B, the event data of (uint256, bytes): [timestamp][offset][length][bytes...]
dataB(ts, offsetWord, lengthWord, bytes) ==
  Str(<<0, CharX>> \o word(ts) \o offsetWord \o lengthWord \o bytes)

lengthOf(bytes) == word(hexDigits(Len(bytes) \div 2))

encodeEvent(layout, ts, bytes) ==
  IF layout = "A" THEN dataA(lengthOf(bytes), padded(bytes))
  ELSE dataB(ts, word(hexDigits(64)), lengthOf(bytes), padded(bytes))

\* a block timestamp of the chain
TsReal == hexDigits(EpochSec)

Uints == {<<0>>, <<1>>, <<5>>, hexDigits(W0), hexDigits(W1), UintHigh, UintMax}
Timestamps == {<<0>>, hexDigits(32), hexDigits(64), TsReal, UintMax}

RoundTripInputs ==
  { [op |-> "roundtrip", stage |-> "in", layout |-> "A", ts |-> <<0>>, points |-> p, week |-> w] :
      p \in Uints, w \in Uints }
  \cup { [op |-> "roundtrip", stage |-> "in", layout |-> "B", ts |-> t, points |-> p, week |-> w] :
      t \in Timestamps, p \in Uints, w \in Uints }

\* one word and 40 bytes of a payload that gives 5 points in week W1
GoodPayload == encodePayload(hexDigits(5), hexDigits(W1))
OneWord == slice(GoodPayload, 0, WordLen)
FortyBytes == slice(GoodPayload, 0, 80)

\* data of fewer than 64 bytes
TooShort ==
  { Missing, Str(<<0, CharX>>), Str(<<0, CharX>> \o OneWord),
    Str(<<0, CharX>> \o slice(GoodPayload, 0, MinHexLen - 1)), Str(slice(GoodPayload, 0, MinHexLen - 2)) }

\* a declared offset or length that runs past the end of the data
PastEnd ==
  { dataA(word(hexDigits(64)), OneWord), dataA(UintMax, GoodPayload), dataA(word(hexDigits(65)), GoodPayload),
    dataB(TsReal, word(hexDigits(64)), word(hexDigits(64)), OneWord),
    dataB(TsReal, word(hexDigits(64)), UintMax, GoodPayload),
    dataB(TsReal, UintMax, word(hexDigits(64)), GoodPayload),
    dataB(TsReal, word(hexDigits(96)), word(hexDigits(64)), GoodPayload),
    dataB(TsReal, word(hexDigits(64)), <<>>, <<>>) }

\* a payload of fewer than two words
ShortPayload ==
  { encodeEvent(layout, TsReal, bytes) : layout \in {"A", "B"}, bytes \in {<<>>, OneWord, FortyBytes} }

Loops == {"mergeLogs", "applyLogsToWeekMap"}

DecodeInputs ==
  { [op |-> "decode", stage |-> "in", loop |-> lp, data |-> d] :
      lp \in Loops, d \in TooShort \cup PastEnd \cup ShortPayload }

Addr40(d) == Zeros(39) \o <<d>>
addressOf(a40) == <<0, CharX>> \o a40
topicOf(a40) == Str(<<0, CharX>> \o Zeros(24) \o a40)

\* the buckets a batch is merged into: weeks W1 (current) and W0 (last)
BaseWeeks ==
  << [weekMs |-> W1, map |-> << <<addressOf(Addr40(10)), 4>> >>],
     [weekMs |-> W0, map |-> << <<addressOf(Addr40(11)), 2>> >>] >>

\* log.topics[1], log.data, and what the log stands for when it is well formed
Raw(topic1, data, good) == [topic1 |-> topic1, data |-> data, good |-> good]
Good(a40, points, week) == [user |-> addressOf(a40), dec |-> [points |-> points, week |-> week]]
GoodRaw(layout, a40, points, week) ==
  Raw(topicOf(a40), encodeEvent(layout, TsReal, encodePayload(hexDigits(points), hexDigits(week))),
      Good(a40, points, week))

withChar(v, i, c) == Str([v.chars EXCEPT ![i] = c])
GoodData == encodeEvent("B", TsReal, GoodPayload)

RawPool ==
  { GoodRaw("B", Addr40(10), 5, W1), GoodRaw("A", Addr40(11), 2, W0), GoodRaw("B", Addr40(12), 3, W2),
    \* too short, oversized offset, oversized length, no data
    Raw(topicOf(Addr40(12)), Str(<<0, CharX>> \o OneWord), NULL),
    Raw(topicOf(Addr40(12)), dataB(TsReal, UintMax, word(hexDigits(64)), GoodPayload), NULL),
    Raw(topicOf(Addr40(12)), dataA(UintMax, GoodPayload), NULL),
    Raw(topicOf(Addr40(12)), Missing, NULL),
    \* a character that is no hex digit in the first word, in the payload
    Raw(topicOf(Addr40(12)), withChar(GoodData, 5, CharZ), NULL),
    Raw(topicOf(Addr40(12)), withChar(GoodData, 2 + 3 * WordLen + 7, CharZ), NULL),
    \* data, topic that is no string; no topic
    Raw(topicOf(Addr40(12)), NotAString, NULL),
    Raw(NotAString, GoodData, NULL),
    Raw(Missing, GoodData, NULL) }

MaxBatch == 2

Batches == UNION { [1..n -> RawPool] : n \in 1..MaxBatch }

MergeInputs ==
  { [op |-> "merge", stage |-> "in", loop |-> lp, batch |-> b] : lp \in Loops, b \in Batches }

PruneUsers == <<"0xa", "0xb", "0xc", "0xd">>
MaxTotal == 2
MaxKeep == 5

RECURSIVE entriesOf(_, _)
entriesOf(t, i) ==
  IF i > Len(PruneUsers) THEN <<>>
  ELSE IF i \in DOMAIN t THEN <<<<PruneUsers[i], t[i]>>>> \o entriesOf(t, i + 1)
  ELSE entriesOf(t, i + 1)

\* maps of up to four addresses, in either insertion order
PruneMaps ==
  UNION { { entriesOf(t, 1) : t \in [S -> 0..MaxTotal] } : S \in SUBSET (1..Len(PruneUsers)) }

reversed(m) == [i \in 1..Len(m) |-> m[Len(m) + 1 - i]]

PruneInputs ==
  { [op |-> "prune", stage |-> "in", map |-> m, keep |-> k] :
      m \in PruneMaps \cup { reversed(x) : x \in PruneMaps }, k \in 0..MaxKeep }

\* the loop's view of one log: its address and decoded payload, or Throw
decodeLog(raw) ==
  LET of(user, dec) ==
        IF user.kind = "throw" \/ dec.kind = "throw" THEN Throw
        ELSE [kind |-> "log",
              log |-> [block |-> 0, user |-> user.chars,
                       dec |-> IF dec.kind = "null" THEN NULL
                               ELSE [points |-> toNumber(dec.points), week |-> toNumber(dec.week)]]]
  IN of(addrFromTopic(raw.topic1), decodeData(raw.data))

RECURSIVE firstThrow(_, _)
firstThrow(decs, i) ==
  IF i > Len(decs) THEN i ELSE IF decs[i].kind = "throw" THEN i ELSE firstThrow(decs, i + 1)

runLoop(loop, weeks, logs) ==
  IF loop = "mergeLogs" THEN mergeLogs(weeks, W1, W0, logs) ELSE applyLogsToWeekMap(weeks, W1, logs)

\* the loop over a batch: it throws at the first log whose decoding throws,
\* with the logs before it merged in memory
mergeBatch(loop, weeks, raws) ==
  LET upTo(decs, n) ==
        [thrown |-> n <= Len(decs),
         weeks |-> runLoop(loop, weeks, [i \in 1..(n - 1) |-> decs[i].log])]
      of(decs) == upTo(decs, firstThrow(decs, 1))
  IN of([i \in 1..Len(raws) |-> decodeLog(raws[i])])

\* what the batch adds when every malformed log is skipped
wellFormed(raws) ==
  LET good == SelectSeq(raws, LAMBDA r : r.good # NULL)
  IN [i \in 1..Len(good) |-> [block |-> 0, user |-> good[i].good.user, dec |-> good[i].good.dec]]

\* The loop of withRpcRotation over the endpoints urls, each "ok" (it answers),
\* "down" (the request fails: "fetch failed") or "error" (it answers with an
\* error): [ok, url, tried, slept], url the endpoint that answered, tried the
\* endpoints in the order they were called, slept the pauses (ms)
RECURSIVE rotationLoop(_, _, _, _)
rotationLoop(urls, attempt, tried, slept) ==
  IF attempt >= tries THEN [ok |-> FALSE, url |-> 0, tried |-> tried, slept |-> slept]
  ELSE LET k == (attempt % Len(urls)) + 1
       IN IF urls[k] = "ok"
            THEN [ok |-> TRUE, url |-> k, tried |-> Append(tried, k), slept |-> slept]
          ELSE IF urls[k] = "down"
            THEN rotationLoop(urls, attempt + 1, Append(tried, k), slept + 250 * (attempt + 1))
          ELSE rotationLoop(urls, attempt + 1, Append(tried, k), slept + 60)

withRpcRotation(urls) == rotationLoop(urls, 0, <<>>, 0)

\* RPCS: the built-in endpoints, then RPC_URL and RPC_URLS, up to MaxUrls in all
MaxUrls == 7

RotateInputs ==
  { [op |-> "rotate", stage |-> "in", urls |-> u] :
      u \in UNION { [1..n -> {"ok", "down", "error"}] : n \in builtInRpcs..MaxUrls } }

\* fetchLogsRange on its own: a range, the time already spent when it is called,
\* the round-trip time and the outcomes of its first eth_getLogs calls
MaxRpcErrors == 2
\* ... after up to this many failures of one kind in a row
MaxRepeats == 4

RECURSIVE seqsUpTo(_, _)
seqsUpTo(S, n) ==
  IF n = 0 THEN {<<>>}
  ELSE LET shorter == seqsUpTo(S, n - 1)
       IN shorter \cup { Append(q, x) : q \in shorter, x \in S }

RpcErrors == {"toolarge", "ratelimit", "overlimit", "timeout", "unknown", "freetier"}

RpcOutcomes ==
  { [k \in 1..n |-> x] \o q :
      x \in RpcErrors, n \in 0..MaxRepeats, q \in seqsUpTo(RpcErrors \cup {"ok"}, MaxRpcErrors) }

FetchHead == WeekBlock(W2) + 2000

FetchRanges ==
  { <<0, 0>>, <<0, 20000>>, <<1, 1>>, <<1, 20000>>,
    <<WeekBlock(W0) + 3000, WeekBlock(W0) + 3000>>,
    <<WeekBlock(W0), WeekBlock(W0) + 8000>>,
    <<WeekBlock(W0), WeekBlock(W0) + 8001>>,
    <<WeekBlock(W0), WeekBlock(W1) - 1>> }

\* called with the deadline passed, or with all of the time left
FetchInputs ==
  { [op |-> "fetch", stage |-> "in", from |-> fr[1], to |-> fr[2],
     t |-> MAX_SERVERLESS_MS + 1, callMs |-> 500, rpc |-> <<>>] : fr \in FetchRanges }
  \cup
  { [op |-> "fetch", stage |-> "in", from |-> fr[1], to |-> fr[2], t |-> 0, callMs |-> ms,
     rpc |-> q] : fr \in FetchRanges, ms \in {500, 3000}, q \in RpcOutcomes }

fetchEnv(ms, rpc) ==
  Env(ms, rpc, "ok", "ok", "head") @@ [head |-> FetchHead, latest |-> FetchHead, fault |-> "none"]

\* fetchLogsViaBaseScan on its own: the number of records the explorer holds for
\* the range, how many of the first requests it answers with a rate limit, the
\* round-trip time, and the revision's way to meet the deadline
MaxPages == 3
MaxRateLimits == 2

PageCounts ==
  {0, 1, offset - 1} \cup UNION { {p * offset, p * offset + 1} : p \in 1..(MaxPages - 1) }

RateLimited == UNION { [1..n -> {"ok", "ratelimit"}] : n \in 0..MaxRateLimits }

PagesInputs ==
  { [op |-> "pages", stage |-> "in", records |-> c, xseq |-> q, callMs |-> ms,
     throwOnDeadline |-> d] :
      c \in PageCounts, q \in RateLimited, ms \in {500, 5000}, d \in BOOLEAN }

pagesEnv(ms, records, xseq) ==
  Env(ms, <<>>, "ok", "ok", "head")
    @@ [head |-> FetchHead, latest |-> FetchHead, fault |-> "none", records |-> records,
        xseq |-> xseq]

\* the binary search on its own: a chain of up to MaxBlocks blocks whose
\* timestamps, in 0..MaxTs, do not decrease, and a target
MaxBlocks == 7
MaxTs == 3
MaxUsers == 260

Chains ==
  { [ts |-> c] :
      c \in UNION { { c \in [1..n -> 0..MaxTs] : \A k \in 1..(n - 1) : c[k] <= c[k + 1] } :
                      n \in 1..MaxBlocks } }

SearchInputs ==
  { [op |-> "search", stage |-> "in", chain |-> c, target |-> g] :
      c \in Chains, g \in 0..(MaxTs + 1) }

\* the cursors of a cold backfill on their own: the blocks the two week starts
\* resolve to (prev <= cur <= latest, as timestamps do not decrease) and the head
Boundaries ==
  {0, 1, 2, SAFETY_BUFFER - 1, SAFETY_BUFFER, SAFETY_BUFFER + 1, SAFETY_BUFFER + 2,
   SAFETY_BUFFER + 500, 2 * SAFETY_BUFFER, 2 * SAFETY_BUFFER + 1, 2 * SAFETY_BUFFER + 40}

CursorInputs ==
  { [op |-> "cursors", stage |-> "in", cur |-> x[2], prev |-> x[1], latest |-> x[3] + d] :
      x \in { y \in Boundaries \X Boundaries \X Boundaries : y[1] <= y[2] /\ y[2] <= y[3] },
      d \in {0, 3} }

\* buckets of n addresses 1..n in insertion order, the totals following a pattern
ViewSizes == {0, 1, MAX_TOP - 1, MAX_TOP, MAX_TOP + 1, PRUNE_KEEP, PRUNE_KEEP + 1, MaxUsers}

ViewPatterns == {"ascending", "descending", "equal", "zigzag"}

totalOf(pattern, i, n) ==
  CASE pattern = "ascending" -> i
    [] pattern = "descending" -> n - i
    [] pattern = "equal" -> 7
    [] pattern = "zigzag" -> (i * 37) % 101

viewMap(pattern, n) == [i \in 1..n |-> <<i, totalOf(pattern, i, n)>>]

ViewInputs ==
  { [op |-> "view", stage |-> "in", cur |-> viewMap(x, n), prev |-> viewMap(y, n \div 2)] :
      x \in ViewPatterns, y \in {"zigzag", "ascending"}, n \in ViewSizes }

\* a BigInt beyond the machine integers is its sequence of hex digits. The
\* conversions work on groups of four digits: words of 16 bits, most
\* significant first, and groups of four decimal digits.
grouped(d, radix) ==
  LET n == (Len(d) + 3) \div 4
      all == Zeros(4 * n - Len(d)) \o d
  IN [i \in 1..n |-> ((all[4 * i - 3] * radix + all[4 * i - 2]) * radix + all[4 * i - 1]) * radix
                       + all[4 * i]]

ungrouped(g, radix) ==
  LET place == <<radix * radix * radix, radix * radix, radix, 1>>
  IN strip([k \in 1..(4 * Len(g)) |-> (g[(k + 3) \div 4] \div place[((k - 1) % 4) + 1]) % radix])

\* quotient and remainder of the words w by 10000, from the most significant
RECURSIVE divWords(_, _, _, _)
divWords(w, k, q, r) ==
  IF k > Len(w) THEN [q |-> strip(q), r |-> r]
  ELSE divWords(w, k + 1, Append(q, (r * 65536 + w[k]) \div 10000), (r * 65536 + w[k]) % 10000)

RECURSIVE decimalGroups(_)
decimalGroups(w) ==
  LET rest(d) == IF d.q = <<0>> THEN <<d.r>> ELSE Append(decimalGroups(d.q), d.r)
  IN rest(divWords(w, 1, <<0>>, 0))

\* p.toString() of such a BigInt
toStringWide(h) == ungrouped(decimalGroups(grouped(h, 16)), 10)

\* w * 10000 + carry, from the least significant word
RECURSIVE timesPlus(_, _, _)
timesPlus(w, k, carry) ==
  IF k = 0 THEN <<carry>>
  ELSE Append(timesPlus(w, k - 1, (w[k] * 10000 + carry) \div 65536), (w[k] * 10000 + carry) % 65536)

RECURSIVE wordsOf(_)
wordsOf(groups) ==
  IF groups = <<>> THEN <<0>>
  ELSE LET next(acc) == strip(timesPlus(acc, Len(acc), groups[Len(groups)]))
       IN next(wordsOf(SubSeq(groups, 1, Len(groups) - 1)))

\* BigInt(pts) of its decimal digits
BigIntWide(pts) == ungrouped(wordsOf(grouped(pts, 10)), 16)

\* the states a cold backfill returns for the boundaries of CursorInputs, a
\* few totals merged, and a total of up to 256 bits
PersistInputs ==
  { [op |-> "persist", stage |-> "in", wide |-> v,
     state |-> [twoCursors_p2(W1, W0, x[3], buffered(x[2]), buffered(x[1]), W1 + MidWeek)
                  EXCEPT !.weeks = << [weekMs |-> W1, map |-> << <<"0xa", 5>>, <<"0xb", 120>> >>],
                                      [weekMs |-> W0, map |-> << <<"0xc", 0>> >>] >>]] :
      x \in { y \in Boundaries \X Boundaries \X Boundaries : y[1] <= y[2] /\ y[2] <= y[3] },
      v \in Uints }

Applied(out) == [out |-> out] @@ [probe EXCEPT !.stage = "out"]

InitPure ==
  /\ rev = "api"
  /\ clock = W0
  /\ invocations = 0
  /\ kvState = NULL
  /\ kvResp = NULL
  /\ kvLock = FALSE
  /\ last = [kind |-> "none", latest |-> NOBLOCK, obs |-> NoObs, base |-> NoBase,
             lock |-> NoLock, names |-> "none", reply |-> NoReply]
  /\ scanned = [cur |-> NoCover, prev |-> NoCover]
  /\ probe \in RoundTripInputs \cup DecodeInputs \cup MergeInputs \cup PruneInputs
                \cup RotateInputs \cup FetchInputs \cup PagesInputs
                \cup SearchInputs \cup CursorInputs \cup ViewInputs
                \cup PersistInputs
  /\ calls = NoCalls

RoundTrip ==
  /\ probe.op = "roundtrip" /\ probe.stage = "in"
  /\ probe' = Applied(decodeData(encodeEvent(probe.layout, probe.ts,
                                             encodePayload(probe.points, probe.week))))
  /\ UNCHANGED <<rev, clock, invocations, kvState, kvResp, kvLock, last, scanned, calls>>

DecodeOne ==
  /\ probe.op = "decode" /\ probe.stage = "in"
  /\ probe' = Applied([dec |-> decodeData(probe.data),
                       merged |-> mergeBatch(probe.loop, BaseWeeks,
                                             <<Raw(topicOf(Addr40(12)), probe.data, NULL)>>)])
  /\ UNCHANGED <<rev, clock, invocations, kvState, kvResp, kvLock, last, scanned, calls>>

MergeBatch ==
  /\ probe.op = "merge" /\ probe.stage = "in"
  /\ probe' = Applied(mergeBatch(probe.loop, BaseWeeks, probe.batch))
  /\ UNCHANGED <<rev, clock, invocations, kvState, kvResp, kvLock, last, scanned, calls>>

Prune ==
  /\ probe.op = "prune" /\ probe.stage = "in"
  /\ probe' = Applied(pruneWeeks(<<[weekMs |-> W1, map |-> probe.map]>>, probe.keep)[1].map)
  /\ UNCHANGED <<rev, clock, invocations, kvState, kvResp, kvLock, last, scanned, calls>>

Rotate ==
  /\ probe.op = "rotate" /\ probe.stage = "in"
  /\ probe' = Applied(withRpcRotation(probe.urls))
  /\ UNCHANGED <<rev, clock, invocations, kvState, kvResp, kvLock, last, scanned, calls>>

FetchRange ==
  /\ probe.op = "fetch" /\ probe.stage = "in"
  /\ probe' = Applied(fetchLogsRange(fetchEnv(probe.callMs, probe.rpc), probe.from, probe.to,
                                     stepInitial, hardMinStep, probe.t, 1))
  /\ UNCHANGED <<rev, clock, invocations, kvState, kvResp, kvLock, last, scanned, calls>>

ScanPages ==
  /\ probe.op = "pages" /\ probe.stage = "in"
  /\ probe' = Applied(fetchLogsViaBaseScan(pagesEnv(probe.callMs, probe.records, probe.xseq),
                                           WeekBlock(W0), WeekBlock(W1) - 1, 0,
                                           probe.throwOnDeadline, 120))
  /\ UNCHANGED <<rev, clock, invocations, kvState, kvResp, kvLock, last, scanned, calls>>

Search ==
  /\ probe.op = "search" /\ probe.stage = "in"
  /\ probe' = Applied(searchLoop(probe.chain, probe.target, 0, Len(probe.chain.ts) - 1,
                                 Len(probe.chain.ts) - 1, 0))
  /\ UNCHANGED <<rev, clock, invocations, kvState, kvResp, kvLock, last, scanned, calls>>

Cursors ==
  /\ probe.op = "cursors" /\ probe.stage = "in"
  /\ probe' = Applied(twoCursors_p2(W1, W0, probe.latest, buffered(probe.cur),
                                    buffered(probe.prev), W1 + MidWeek))
  /\ UNCHANGED <<rev, clock, invocations, kvState, kvResp, kvLock, last, scanned, calls>>

\* the payload of a state holding the two buckets, before and after pruneToTop
View ==
  /\ probe.op = "view" /\ probe.stage = "in"
  /\ LET of(state, kept) ==
           [fresh |-> formatResponsePayload_api(state),
            kept |-> kept,
            pruned |-> formatResponsePayload_api([state EXCEPT !.weeks = kept])]
         holding(weeks) ==
           of([schemaVersion |-> STATE_SCHEMA_VERSION_api, currentWeekMs |-> W1,
               lastWeekMs |-> W0, lastProcessedBlock |-> WeekBlock(W1),
               updatedAt |-> W1 + MidWeek, weeks |-> weeks],
              pruneWeeks(weeks, PRUNE_KEEP))
     IN probe' = Applied(holding(<<[weekMs |-> W1, map |-> probe.cur],
                                   [weekMs |-> W0, map |-> probe.prev]>>))
  /\ UNCHANGED <<rev, clock, invocations, kvState, kvResp, kvLock, last, scanned, calls>>

\* the state written to the store and read back, and what the next update makes
\* of both
Persist ==
  /\ probe.op = "persist" /\ probe.stage = "in"
  /\ LET reload(stored) ==
           [stored |-> stored,
            reloaded |-> deserializeState_p2(stored),
            digits |-> toStringWide(probe.wide),
            wide |-> BigIntWide(toStringWide(probe.wide))]
     IN probe' = Applied(reload(serializeState_p2(probe.state)))
  /\ UNCHANGED <<rev, clock, invocations, kvState, kvResp, kvLock, last, scanned, calls>>

NextPure ==
  \/ Persist
  \/ View
  \/ RoundTrip
  \/ DecodeOne
  \/ MergeBatch
  \/ Prune
  \/ Rotate
  \/ FetchRange
  \/ ScanPages
  \/ Search
  \/ Cursors

SpecPure == InitPure /\ [][NextPure]_vars

(***************************************************************************)
(* The backfill resumed by successive invocations of part_002 within one    *)
(* week: no fetch throws, and the round trips are short enough for every    *)
(* invocation to scan a chunk before its deadline.                          *)
(***************************************************************************)
MaxResume == 8

ResumeProfiles ==
  { Env(500, <<>>, "ok", "ok", "head"),
    Env(1000, <<>>, "ok", "ok", "head"),
    Env(2000, <<>>, "ok", "ok", "head"),
    Env(500, <<"toolarge", "toolarge", "toolarge">>, "ok", "ok", "head"),
    Env(1000, <<"ratelimit", "unknown">>, "ok", "ok", "head"),
    Env(1500, <<"toolarge">>, "ok", "ok", "behind"),
    Env(2000, <<>>, "ok", "ok", "behind") }

ResumeInstants == {W1 + MidWeek, W1 + MidWeek + AtStart, W1 + LateWeek}

BothComplete == kvState # NULL /\ kvState.completeCurWeek /\ kvState.completePrevWeek

InitResume ==
  /\ rev = "p2"
  /\ clock = W1
  /\ invocations = 0
  /\ kvState = NULL
  /\ kvResp = NULL
  /\ kvLock = FALSE
  /\ last = [kind |-> "none", latest |-> NOBLOCK, obs |-> NoObs, base |-> NoBase,
             lock |-> NoLock, names |-> "none", reply |-> NoReply]
  /\ scanned = [cur |-> NoCover, prev |-> NoCover]
  /\ probe = NoProbe
  /\ calls = NoCalls

\* the refresh can be invoked again: the backfill is not done
CanResume ==
  /\ ~BothComplete
  /\ invocations < MaxResume
  /\ \E now \in ResumeInstants : now >= clock

\* the next invocation of the refresh
Resume ==
  /\ CanResume
  /\ \E now \in ResumeInstants : \E p \in ResumeProfiles :
       /\ now >= clock
       /\ handler(now, AtInstant(p, now, "none"))

NextResume == Resume

\* Weak fairness of Resume, WF_vars(Resume), with ENABLED <<Resume>>_vars written
\* out as CanResume: the handler answers every request, and an answered request
\* counts as an invocation. The page polls the endpoint for as long as it is open.
ResumeIsFair == []<>(~CanResume) \/ []<><<Resume>>_vars

SpecResume == InitResume /\ [][NextResume]_vars /\ ResumeIsFair

(***************************************************************************)
(* Properties                                                              *)
(***************************************************************************)
\* the latest invocation was an update that persisted its state
Persisted == last.kind = "updated"
\* the latest invocation was an update that got as far as reading the latest block
Ran == last.kind \in {"updated", "error"} /\ last.latest # NOBLOCK
\* ... and it started from the state found in the store
Warm == Persisted /\ last.base.present /\ ~last.obs.cold
SameWeek == last.base.currentWeekMs = kvState.currentWeekMs

\* the Monday 00:00:00 UTC (ms) of the week of now
WeekOf(now) == CHOOSE w \in {W0, W1, W2} : w <= now /\ now < w + 604800000

Reqs == last.obs.reqs
\* the persisted progress of the cursor a fetch belongs to, before and after the update
processedOf(r) == IF r.cursor = "cur" THEN curProcessed(kvState) ELSE prevProcessed(kvState)
baseProcessedOf(r) == IF r.cursor = "cur" THEN last.base.cur ELSE last.base.prev
flagOf(r) ==
  IF r.cursor = "cur" THEN Field(kvState, "completeCurWeek", FALSE)
  ELSE Field(kvState, "completePrevWeek", FALSE)
baseFlagOf(r) == IF r.cursor = "cur" THEN last.base.curDone ELSE last.base.prevDone

\* the points of user u for week w in the logs at blocks lo..hi, from position k on
RECURSIVE chainTotal(_, _, _, _, _)
chainTotal(u, w, lo, hi, k) ==
  IF k > Len(ChainLogs) THEN 0
  ELSE LET l == ChainLogs[k]
           hit == /\ l.dec # NULL
                  /\ l.user = u
                  /\ l.block >= lo /\ l.block <= hi /\ l.block <= HeadAt(clock)
       IN (IF hit /\ l.dec.week = w THEN l.dec.points ELSE 0) + chainTotal(u, w, lo, hi, k + 1)

\* the persisted total of user u in the bucket of week w
bucketTotal(state, w, u) ==
  LET i == weekFind(state.weeks, w, 1)
  IN IF i = 0 THEN 0 ELSE mapGet(desEntries(state.weeks[i].entries), u)

\* the points of u for week w in what the fetches of the latest update returned:
\* part_002 feeds a cursor's logs to that cursor's bucket only
RECURSIVE fetchedTotal(_, _, _)
fetchedTotal(u, w, k) ==
  IF k > Len(Reqs) THEN 0
  ELSE LET r == Reqs[k]
           mine == \/ rev # "p2"
                   \/ r.cursor = "cur" /\ w = kvState.currentWeekMs
                   \/ r.cursor = "prev" /\ w = kvState.lastWeekMs
       IN (IF mine THEN chainTotal(u, w, r.from, r.lastScannedBlock, 1) ELSE 0)
          + fetchedTotal(u, w, k + 1)

\* the persisted totals are exactly what the latest update fetched: nothing older is in them
BuiltFromFetches ==
  \A w \in {kvState.currentWeekMs, kvState.lastWeekMs} : \A u \in Users :
    bucketTotal(kvState, w, u) = fetchedTotal(u, w, 1)

\* a state freshly built by a cold backfill: the two buckets of W, both empty
FreshFor(state, W) ==
  /\ state.currentWeekMs = W
  /\ state.lastWeekMs = W - 604800000
  /\ Len(state.weeks) = 2
  /\ \A i \in 1..2 : state.weeks[i].map = <<>>
  /\ {state.weeks[i].weekMs : i \in 1..2} = {W, W - 604800000}
  /\ IF rev = "p2" THEN ~state.completeCurWeek /\ ~state.completePrevWeek
     ELSE state.lastProcessedBlock = NOBLOCK

SchemaOf(r) == IF r = "p2" THEN STATE_SCHEMA_VERSION_p2 ELSE STATE_SCHEMA_VERSION_api

\* C1: across successive updates within one calendar week, each starting from
\* the state the previous one persisted, no cursor's processedBlock decreases,
\* whatever latest block the RPC returns.
C1_ProcessedBlockNeverDecreases ==
  (Warm /\ SameWeek) =>
    /\ curProcessed(kvState) >= last.base.cur
    /\ prevProcessed(kvState) >= last.base.prev

\* C2: a cursor is marked complete only when its fetch reported the whole
\* remaining range scanned, with processedBlock set to the upper bound of the
\* range; after a fetch cut short, processedBlock is the last block scanned and
\* the cursor is not complete.
C2_CompleteOnlyWhenScanned ==
  Persisted =>
    \A k \in 1..Len(Reqs) :
      /\ flagOf(Reqs[k]) => Reqs[k].complete /\ processedOf(Reqs[k]) = Reqs[k].to
      /\ ~Reqs[k].complete =>
           processedOf(Reqs[k]) = Reqs[k].lastScannedBlock /\ ~flagOf(Reqs[k])

\* the same for the revisions that record how far a fetch got
C2_HoldsWithProgressRecord == rev # "p1" => C2_CompleteOnlyWhenScanned

\* C3: an update that continues from a persisted state asks for blocks from
\* processedBlock+1 on; what it scanned is at or below the processedBlock it
\* persists; no block is merged twice into a cursor's buckets.
C3_NoBlockRequestedTwice ==
  Persisted =>
    \A k \in 1..Len(Reqs) :
      /\ Warm /\ baseProcessedOf(Reqs[k]) # NOBLOCK =>
           Reqs[k].from = baseProcessedOf(Reqs[k]) + 1
      /\ processedOf(Reqs[k]) >= Reqs[k].lastScannedBlock
      /\ ~scanned[Reqs[k].cursor].overlap

C3_Witness ==
  /\ Warm
  /\ Len(Reqs) > 0
  /\ Reqs[1].lastScannedBlock >= Reqs[1].from
  /\ scanned[Reqs[1].cursor].lo < Reqs[1].from
  /\ last.base.cur >= scanned[Reqs[1].cursor].lo

\* C4: where a fetch reports its progress (api/leaderboard.js, part_002), a
\* fetch that returns complete=false at block L persists processedBlock = L and
\* no complete flag, and the update that continues from that state asks for
\* blocks from L+1 on.
C4_DeadlineResumesAfterLastScanned ==
  (rev # "p1" /\ Persisted) =>
    \A k \in 1..Len(Reqs) :
      /\ ~Reqs[k].complete =>
           processedOf(Reqs[k]) = Reqs[k].lastScannedBlock /\ ~flagOf(Reqs[k])
      /\ Warm /\ ~baseFlagOf(Reqs[k]) /\ baseProcessedOf(Reqs[k]) # NOBLOCK =>
           Reqs[k].from = baseProcessedOf(Reqs[k]) + 1

\* a second deadline in a row: the update resumed after the block the first one
\* stopped at, and stopped mid-range itself
C4_Witness ==
  /\ rev = "p2"
  /\ Warm
  /\ Len(Reqs) > 0
  /\ Reqs[1].cursor = "cur"
  /\ last.base.cur >= kvState.curWeekFromBlock
  /\ Reqs[1].from = last.base.cur + 1
  /\ ~Reqs[1].complete
  /\ Reqs[1].lastScannedBlock > Reqs[1].from
  /\ kvState.curWeekProcessedBlock = Reqs[1].lastScannedBlock

\* C5: an update whose current-week fetch (if any) ran to completion leaves the
\* current-week cursor at the latest block it read, or beyond.
C5_EveryUpdateAdvancesCurrentCursor ==
  (Persisted /\ \A k \in 1..Len(Reqs) : Reqs[k].complete) =>
    curProcessed(kvState) >= last.latest

C5_HoldsWithOneCursor == rev # "p2" => C5_EveryUpdateAdvancesCurrentCursor

\* C6: once both cursors of part_002 are complete, the bucket of each tracked
\* week holds every log of that week at a block from prevWeekFromBlock to the
\* last block scanned.
C6_NoBoundaryEventMissed ==
  (rev = "p2" /\ Persisted /\ kvState.completeCurWeek /\ kvState.completePrevWeek) =>
    \A w \in {kvState.currentWeekMs, kvState.lastWeekMs} : \A u \in Users :
      bucketTotal(kvState, w, u)
        >= chainTotal(u, w, kvState.prevWeekFromBlock, kvState.curWeekProcessedBlock, 1)

\* C7: with nothing in the store, the state a cold backfill builds (before any
\* scan) has currentWeekMs = the Monday 00:00 UTC of now, lastWeekMs a week
\* earlier, two empty buckets and no cursor complete.
C7_ColdBackfillFromNothing ==
  (~last.base.present /\ last.obs.cold /\ last.obs.coldState # NULL) =>
    FreshFor(last.obs.coldState, WeekOf(clock))

\* Monday 00:00:01 of week W2, nothing in the store
C7_Witness ==
  /\ ~last.base.present
  /\ last.obs.cold
  /\ last.obs.coldState # NULL
  /\ clock = W2 + AtStart
  /\ last.obs.coldState.currentWeekMs = W2

\* C8: when now is in the week after the state's week, the update rolls over:
\* no cold backfill, no time -> block resolution, the old current totals become
\* the previous totals, the current bucket starts empty and scanning resumes
\* after the old cursor.
C8_RolloverKeepsTotals ==
  (Persisted /\ last.base.present /\ last.base.currentWeekMs = WeekOf(clock) - 604800000) =>
    /\ last.obs.rolled /\ ~last.obs.cold /\ ~last.obs.resolved
    /\ last.obs.rolledState # NULL
    /\ weekMap(last.obs.rolledState.weeks, WeekOf(clock)) = <<>>
    /\ weekMap(last.obs.rolledState.weeks, last.base.currentWeekMs)
         = weekMap(last.base.weeks, last.base.currentWeekMs)
    /\ \A k \in 1..Len(Reqs) : Reqs[k].from = last.base.cur + 1

C8_HoldsInPart001 == rev = "p1" => C8_RolloverKeepsTotals

\* C9: when the state's week is two or more weeks before the week of now, the
\* update runs a cold backfill and no rollover: the buckets start empty, the
\* scan starts at a boundary computed in this update, and the persisted totals
\* hold nothing but what this update fetched.
C9_TwoWeeksBehindBackfills ==
  (Ran /\ last.base.present /\ last.base.currentWeekMs <= WeekOf(clock) - 2 * 604800000) =>
    /\ last.obs.cold /\ ~last.obs.rolled
    /\ rev # "p1" => last.obs.resolved
    /\ last.obs.coldState # NULL => FreshFor(last.obs.coldState, WeekOf(clock))
    /\ Persisted =>
         /\ BuiltFromFetches
         /\ Reqs[1].from =
              CASE rev = "p1" -> last.latest - WINDOW_p1
                [] rev = "api" -> last.obs.coldState.backfillFromBlock
                [] OTHER -> last.obs.coldState.curWeekFromBlock

C9_Witness ==
  /\ Persisted
  /\ last.base.present
  /\ last.base.currentWeekMs = W0
  /\ last.base.weeks # <<>>
  /\ weekMap(last.base.weeks, W0) # <<>>
  /\ clock = W2 + AtStart
  /\ last.obs.cold

\* C10: where the state carries a schema version (api/leaderboard.js,
\* part_002), a persisted state with a lower or missing version is not the base
\* of an update: a cold backfill runs, and the state persisted has the current
\* version, totals holding nothing but what this update fetched, and cursors
\* set by this update's fetches.
C10_StaleSchemaDiscarded ==
  (rev # "p1" /\ Ran /\ last.base.present /\ last.base.schemaVersion < SchemaOf(rev)) =>
    /\ last.obs.cold
    /\ last.obs.coldState # NULL => FreshFor(last.obs.coldState, WeekOf(clock))
    /\ Persisted =>
         /\ kvState.schemaVersion = SchemaOf(rev)
         /\ BuiltFromFetches
         /\ \A k \in 1..Len(Reqs) :
              processedOf(Reqs[k]) = IF Reqs[k].complete THEN Reqs[k].to
                                     ELSE Reqs[k].lastScannedBlock

\* a stale snapshot of the running week, with totals and a cursor in it
C10_Witness ==
  /\ rev # "p1"
  /\ Persisted
  /\ last.base.present
  /\ last.base.schemaVersion < SchemaOf(rev)
  /\ last.base.currentWeekMs = kvState.currentWeekMs
  /\ last.base.cur # NOBLOCK
  /\ weekMap(last.base.weeks, last.base.currentWeekMs) # <<>>
  /\ last.obs.cold

\* the buckets the latest update started from: none after a cold backfill, the
\* rolled ones after a rollover, else the persisted ones
startWeeks ==
  IF last.obs.cold THEN <<>>
  ELSE IF last.obs.rolled THEN last.obs.rolledState.weeks
  ELSE last.base.weeks

\* a fetch of the latest update returned the log of week WOld
FetchedUntracked ==
  \E k \in 1..Len(Reqs) :
    /\ Reqs[k].from <= WeekBlock(W1) + 5000
    /\ Reqs[k].lastScannedBlock >= WeekBlock(W1) + 5000

\* C11: a decoded log adds its points to a bucket only if its weekBucket is that
\* bucket's week start, one of the two tracked weeks; a log of any other week
\* changes no total and adds no address: what an update adds to the total of an
\* address in a bucket is the points of the fetched logs of that bucket's week,
\* no bucket is of an untracked week, and no address is there without points.
C11_OnlyTrackedWeeksCounted ==
  Persisted =>
    /\ \A i \in 1..Len(kvState.weeks) :
         /\ kvState.weeks[i].weekMs \in {kvState.currentWeekMs, kvState.lastWeekMs}
         /\ \A j \in 1..Len(kvState.weeks[i].entries) : BigInt(kvState.weeks[i].entries[j][2]) > 0
    /\ \A w \in {kvState.currentWeekMs, kvState.lastWeekMs} : \A u \in Users :
         bucketTotal(kvState, w, u) = mapGet(weekMap(startWeeks, w), u) + fetchedTotal(u, w, 1)

\* the log of week WOld was fetched while W1 and W0 were tracked, and its sender
\* has no total from it
C11_Witness ==
  /\ Persisted
  /\ FetchedUntracked
  /\ kvState.currentWeekMs = W1
  /\ bucketTotal(kvState, W1, "0xc") < 9
  /\ bucketTotal(kvState, W0, "0xc") < 9

\* C16: every persisted state has at most two buckets, of distinct week starts
\* drawn from {currentWeekMs, lastWeekMs}, and lastWeekMs = currentWeekMs - 604800000.
C16_AtMostTwoBuckets ==
  kvState # NULL =>
    /\ Len(kvState.weeks) <= 2
    /\ \A i, j \in 1..Len(kvState.weeks) :
         i # j => kvState.weeks[i].weekMs # kvState.weeks[j].weekMs
    /\ \A i \in 1..Len(kvState.weeks) :
         kvState.weeks[i].weekMs \in {kvState.currentWeekMs, kvState.lastWeekMs}
    /\ kvState.lastWeekMs = kvState.currentWeekMs - 604800000

\* an update that continued from a persisted state and fetched logs of three
\* different weeks
C16_Witness ==
  /\ Warm
  /\ FetchedUntracked
  /\ Len(kvState.weeks) = 2
  /\ \A i \in 1..2 : kvState.weeks[i].entries # <<>>

\* the chunks of stepInitial + 1 blocks in the range of a fetch
chunksOf(r) == (r.to - r.from + 1 + stepInitial) \div (stepInitial + 1)

\* the fetch fell back from the chunked RPC scan to the explorer
FellBack(r) == r.via = "scan" /\ r.calls > 0

\* C20: where a fetch reports its progress (api/leaderboard.js, part_002): when
\* the chunked RPC scan throws partway through a range - a free-tier rejection is
\* rethrown by the call that met it, every call before it having scanned a full
\* chunk - the explorer scans the whole range and what is merged holds each log
\* of the range once; whichever strategy produced the result, the cursor is
\* marked complete and set to the end of the range only if that strategy ran to
\* the end of the range.
C20_FallbackScansWholeRangeOnce ==
  (rev # "p1" /\ Persisted) =>
    /\ \A k \in 1..Len(Reqs) :
         /\ FellBack(Reqs[k]) =>
              /\ Reqs[k].calls <= chunksOf(Reqs[k])
              /\ Reqs[k].complete /\ Reqs[k].lastScannedBlock = Reqs[k].to
         /\ flagOf(Reqs[k]) => Reqs[k].complete
         /\ processedOf(Reqs[k]) = Reqs[k].to =>
              (Reqs[k].complete \/ Reqs[k].lastScannedBlock = Reqs[k].to)
    /\ (\E k \in 1..Len(Reqs) : FellBack(Reqs[k])) =>
         \A w \in {kvState.currentWeekMs, kvState.lastWeekMs} : \A u \in Users :
           bucketTotal(kvState, w, u) = mapGet(weekMap(startWeeks, w), u) + fetchedTotal(u, w, 1)

\* the second chunk of a range was rejected; the first held a log that was merged
C20_Witness ==
  /\ rev # "p1"
  /\ Persisted
  /\ Len(Reqs) > 0
  /\ FellBack(Reqs[1])
  /\ Reqs[1].calls = 2
  /\ \E u \in Users :
       chainTotal(u, kvState.currentWeekMs, Reqs[1].from, Reqs[1].from + stepInitial, 1) > 0

\* the latest step was a handler invocation
Replied == last.kind \in {"cached", "updated", "error", "fault", "half"}

\* C17: every handler invocation, whatever fails inside it, replies with HTTP
\* status 200 and a body whose ok field is a boolean: TRUE with the formatted
\* payload, FALSE with an error message.
C17_AlwaysStatus200WithOk ==
  Replied =>
    /\ last.reply.status = 200
    /\ last.reply.body.ok \in BOOLEAN
    /\ last.reply.body.ok =>
         {"weekStart", "prevWeekStart", "weekly", "lastWeek", "meta"} \subseteq DOMAIN last.reply.body
    /\ ~last.reply.body.ok => "error" \in DOMAIN last.reply.body

\* the state key was written, the write of the response key was rejected
C17_Witness ==
  /\ last.kind = "half"
  /\ kvState # NULL
  /\ last.reply.status = 200
  /\ ~last.reply.body.ok

\* C18: an invocation that acquired the lock calls storeReleaseLock before it
\* replies, success or error, and after the reply the lock key is not set.
C18_LockFreeAfterReply ==
  (Replied /\ last.lock.acquired) => (last.lock.releaseTried /\ ~kvLock)

\* C18, amended: ... and after the reply the lock key is not set unless the
\* delete itself was rejected (the rejection is swallowed; the key then lasts
\* until its 30 s TTL).
C18_LockReleaseAttempted ==
  (Replied /\ last.lock.acquired) =>
    /\ last.lock.releaseTried
    /\ last.lock.released => ~kvLock

\* a persistence write thrown after the lock was acquired
C18_Witness ==
  /\ last.kind = "half"
  /\ last.lock.acquired
  /\ last.lock.released
  /\ ~kvLock

\* C19: an update that throws while a cursor advances leaves the state key and
\* the response key as they were, and the reply is the error envelope.
C19_ThrownUpdateWritesNothing ==
  [][last'.kind = "error" =>
       /\ kvState' = kvState
       /\ kvResp' = kvResp
       /\ ~last'.reply.body.ok]_vars

\* part_002: the previous-week fetch threw after the current-week fetch was merged
C19_Witness ==
  /\ rev = "p2"
  /\ last.kind = "error"
  /\ kvState # NULL
  /\ Len(Reqs) = 2
  /\ Reqs[1].cursor = "cur" /\ Reqs[1].complete /\ Reqs[1].lastScannedBlock >= Reqs[1].from
  /\ Reqs[2].cursor = "prev"

\* a log whose topic is a string and whose data, if any, is a string of hex digits
hexOnly(raw) ==
  /\ raw.topic1.kind = "string"
  /\ raw.data.kind # "other"
  /\ raw.data.kind = "string" => \A i \in 3..Len(raw.data.chars) : raw.data.chars[i] < 16

\* C12: whatever the logs of a batch are, the merge loop does not throw, a
\* malformed log adds no points under any address, and the well-formed logs of
\* the batch are all merged.
C12_MalformedLogNeverAborts ==
  (probe.op = "merge" /\ probe.stage = "out") =>
    /\ ~probe.out.thrown
    /\ probe.out.weeks = runLoop(probe.loop, BaseWeeks, wellFormed(probe.batch))

\* C12, for batches of logs that have a topic and hex digits as data: it holds
C12_HoldsForHexStrings ==
  (probe.op = "merge" /\ probe.stage = "out"
     /\ \A i \in 1..Len(probe.batch) : hexOnly(probe.batch[i])) =>
    /\ ~probe.out.thrown
    /\ probe.out.weeks = runLoop(probe.loop, BaseWeeks, wellFormed(probe.batch))

\* C12: a log without topics and with valid data is merged under the address "0x"
C12_NoTopicsAddsNothing ==
  (probe.op = "merge" /\ probe.stage = "out" /\ ~probe.out.thrown) =>
    \A i \in 1..Len(probe.out.weeks) : mapFind(probe.out.weeks[i].map, <<0, CharX>>, 1) = 0

\* C13: data of fewer than 64 bytes, a declared offset or length that runs past
\* the end of the data, or a payload of fewer than two words decodes to null,
\* and merging such a log leaves every bucket as it was: no total changes and
\* no address is added.
C13_TooShortDecodesToNull ==
  (probe.op = "decode" /\ probe.stage = "out") =>
    /\ probe.out.dec = Null
    /\ ~probe.out.merged.thrown
    /\ probe.out.merged.weeks = BaseWeeks

\* C13: data whose declared length of 32 bytes holds one word only has been
\* decoded to null and merged
C13_Witness ==
  /\ probe.op = "decode" /\ probe.stage = "out"
  /\ probe.data = encodeEvent("B", TsReal, OneWord)
  /\ probe.out.dec = Null
  /\ probe.out.merged.weeks = BaseWeeks

\* C14: for every points and week of 256 bits and every leading timestamp
\* word, decoding the event data that carries the payload (points, week) in
\* layout A or in layout B gives back points and week.
C14_RoundTrip ==
  (probe.op = "roundtrip" /\ probe.stage = "out") =>
    probe.out = [kind |-> "dec", points |-> probe.points, week |-> probe.week]

\* C14, for layout A and for layout B with a timestamp word other than 32: it holds
C14_HoldsUnlessTimestamp32 ==
  (probe.op = "roundtrip" /\ probe.stage = "out"
     /\ (probe.layout = "A" \/ probe.ts # hexDigits(32))) =>
    probe.out = [kind |-> "dec", points |-> probe.points, week |-> probe.week]

\* C14: layout B with the timestamp word 32 is read as layout A, and the
\* payload's length word and points come out as points and week
C14_Timestamp32ReadAsLayoutA ==
  (probe.op = "roundtrip" /\ probe.stage = "out"
     /\ probe.layout = "B" /\ probe.ts = hexDigits(32)) =>
    probe.out = [kind |-> "dec", points |-> hexDigits(64), week |-> probe.points]

RECURSIVE distinctKeys(_, _)
distinctKeys(m, i) ==
  IF i > Len(m) THEN TRUE
  ELSE mapFind(m, m[i][1], 1) = i /\ distinctKeys(m, i + 1)

\* C15: pruning a bucket to K keeps min(K, size) addresses, each with the
\* total it had, and no dropped address has a total greater than a kept one;
\* the bucket then holds at most K addresses.
C15_PruneKeepsTopK ==
  (probe.op = "prune" /\ probe.stage = "out") =>
    /\ Len(probe.out) = Min(probe.keep, Len(probe.map))
    /\ Len(probe.out) <= probe.keep
    /\ distinctKeys(probe.out, 1)
    /\ \A i \in 1..Len(probe.out) :
         /\ mapFind(probe.map, probe.out[i][1], 1) # 0
         /\ mapGet(probe.map, probe.out[i][1]) = probe.out[i][2]
    /\ \A j \in 1..Len(probe.map) :
         mapFind(probe.out, probe.map[j][1], 1) = 0 =>
           \A i \in 1..Len(probe.out) : probe.map[j][2] <= probe.out[i][2]

\* C15: a bucket of four addresses whose largest total was inserted last has
\* been pruned to two
C15_Witness ==
  /\ probe.op = "prune" /\ probe.stage = "out"
  /\ probe.map = << <<"0xa", 0>>, <<"0xb", 1>>, <<"0xc", 1>>, <<"0xd", 2>> >>
  /\ probe.keep = 2
  /\ probe.out = << <<"0xd", 2>>, <<"0xb", 1>> >>

\* C15, after every update: each persisted bucket holds at most PRUNE_KEEP addresses
C15_BucketsWithinPruneKeep ==
  Persisted =>
    \A i \in 1..Len(kvState.weeks) :
      Len(kvState.weeks[i].entries) <= (IF rev = "p1" THEN PRUNE_KEEP_p1 ELSE PRUNE_KEEP)

\* C21: when the deadline test of a fetch loop (the chunk loop or the
\* explorer's page loop) ends a fetch, the update does not throw: the fetch
\* reports complete = false, the handler persists the cursor at the last block
\* scanned and replies ok = true.
C21_DeadlineIsNeverAnError ==
  Ran =>
    \A k \in 1..Len(Reqs) :
      Reqs[k].stops # {} =>
        /\ Persisted
        /\ last.reply.body.ok
        /\ ~Reqs[k].complete
        /\ processedOf(Reqs[k]) = Reqs[k].lastScannedBlock

\* C21, for the chunk loop of api/leaderboard.js and part_002: it holds
C21_HoldsInChunkLoop ==
  (Ran /\ rev # "p1") =>
    \A k \in 1..Len(Reqs) :
      (Reqs[k].stops # {} /\ Reqs[k].via = "rpc") =>
        /\ Persisted
        /\ last.reply.body.ok
        /\ ~Reqs[k].complete
        /\ processedOf(Reqs[k]) = Reqs[k].lastScannedBlock

\* C21: a deadline in the explorer's page loop, reached as the fallback of the
\* chunk loop, is thrown and the handler replies ok = false
C21_FallbackDeadlineIsThrown ==
  (Ran /\ rev # "p1") =>
    \A k \in 1..Len(Reqs) :
      (Reqs[k].stops = {"scan"} /\ Reqs[k].via = "scan") =>
        last.kind = "error" /\ ~last.reply.body.ok

\* the explorer's page loop has stopped at the deadline as the fallback
C21_FallbackDeadlineSeen ==
  /\ Ran /\ rev = "p2"
  /\ Len(Reqs) > 0
  /\ Reqs[1].stops = {"scan"} /\ Reqs[1].via = "scan"

\* C22: when the name lookup fails (a non-OK status, a rejected fetch, a body
\* that does not parse), the handler still writes the state and the response
\* and replies ok = true, the rows carrying the raw addresses.
C22_NameFailureNonFatal ==
  last.names # "none" =>
    /\ last.kind = "updated"
    /\ last.reply.status = 200 /\ last.reply.body.ok
    /\ kvState # NULL
    /\ kvResp = formatResponsePayload(deserializeState(kvState))

\* C22, for a lookup answered with a non-OK status: it holds
C22_HoldsForNotOkStatus ==
  last.names = "notOk" =>
    /\ last.kind = "updated"
    /\ last.reply.status = 200 /\ last.reply.body.ok
    /\ kvState # NULL
    /\ kvResp = formatResponsePayload(deserializeState(kvState))

\* C22: a lookup that rejects ends the invocation with ok = false and nothing written
C22_RejectedLookupIsFatal ==
  [][last'.names = "threw" =>
       /\ ~last'.reply.body.ok
       /\ kvState' = kvState /\ kvResp' = kvResp]_vars

\* the lookup was answered with a non-OK status, the lookup rejected
C22_NotOkSeen == last.names = "notOk" /\ kvState # NULL /\ Len(kvState.weeks[1].entries) > 0
C22_RejectedSeen == last.names = "threw"

\* the endpoints were called in their order, starting over after the last one
inPriorityOrder(tried, n) == \A i \in 1..Len(tried) : tried[i] = ((i - 1) % n) + 1

\* C23: whatever the number of configured endpoints and whichever of them are
\* unreachable, a call through the rotation succeeds when one endpoint is
\* reachable, and the endpoints are called in their priority order.
C23_SucceedsIfAnyReachable ==
  (probe.op = "rotate" /\ probe.stage = "out") =>
    /\ inPriorityOrder(probe.out.tried, Len(probe.urls))
    /\ (\E k \in 1..Len(probe.urls) : probe.urls[k] = "ok") =>
         /\ probe.out.ok
         /\ probe.urls[probe.out.url] = "ok"
         /\ \A j \in 1..(probe.out.url - 1) : probe.urls[j] # "ok"

\* C23, for at most six configured endpoints: it holds
C23_HoldsUpToSixEndpoints ==
  (probe.op = "rotate" /\ probe.stage = "out" /\ Len(probe.urls) <= tries) =>
    /\ inPriorityOrder(probe.out.tried, Len(probe.urls))
    /\ (\E k \in 1..Len(probe.urls) : probe.urls[k] = "ok") =>
         /\ probe.out.ok
         /\ probe.urls[probe.out.url] = "ok"
         /\ \A j \in 1..(probe.out.url - 1) : probe.urls[j] # "ok"

\* C23: the rotation gives up after six calls, so an endpoint after the sixth is
\* never called
C23_SeventhEndpointNeverCalled ==
  (probe.op = "rotate" /\ probe.stage = "out") =>
    /\ Len(probe.out.tried) <= tries
    /\ \A i \in 1..Len(probe.out.tried) : probe.out.tried[i] <= tries

\* C24: in part_002 an update fetches for the current-week cursor first and for
\* the previous-week cursor after it, at most once each; the previous-week
\* fetch is issued only when step 2 is reached with more than 250 ms left, so
\* never after a current-week fetch that ended past the deadline.
C24_CurrentWeekFirst ==
  (rev = "p2" /\ Ran) =>
    /\ Len(Reqs) <= 2
    /\ \A k \in 1..Len(Reqs) :
         /\ Reqs[k].cursor = "cur" => k = 1
         /\ Reqs[k].cursor = "prev" => k = Len(Reqs) /\ last.obs.prevAt = "early"
    /\ Len(Reqs) = 2 =>
         /\ Reqs[1].cursor = "cur" /\ Reqs[2].cursor = "prev"
         /\ ~Reqs[1].deadline /\ Reqs[1].stops = {}
    /\ last.obs.prevAt = "late" => \A k \in 1..Len(Reqs) : Reqs[k].cursor = "cur"

\* both fetches were issued in one update, each scanned blocks, and logs of both
\* weeks were merged
C24_Witness ==
  /\ rev = "p2" /\ Persisted
  /\ Len(Reqs) = 2
  /\ Reqs[1].cursor = "cur" /\ Reqs[1].lastScannedBlock >= Reqs[1].from
  /\ Reqs[2].cursor = "prev" /\ Reqs[2].lastScannedBlock >= Reqs[2].from
  /\ \A i \in 1..2 : Len(kvState.weeks[i].entries) > 0

\* step 2 was reached with 250 ms or less left and the previous-week cursor,
\* still incomplete, was left alone
C24_SkippedForLackOfTime ==
  /\ rev = "p2" /\ Persisted
  /\ last.obs.prevAt = "late"
  /\ Len(Reqs) = 1
  /\ ~kvState.completePrevWeek

\* the latest update of part_002 continued from a state whose current-week
\* cursor was complete, and fetched for the previous-week cursor
PrevAdvancedAlone ==
  /\ rev = "p2" /\ Warm /\ SameWeek
  /\ last.base.curDone
  /\ \E k \in 1..Len(Reqs) : Reqs[k].cursor = "prev"

\* C25: an advance of the previous-week cursor from a state whose current-week
\* cursor is complete changes neither a total of the current bucket nor the
\* current-week cursor, and the response built from the state shows the current
\* bucket.
C25_CursorsIndependent ==
  PrevAdvancedAlone =>
    /\ \A k \in 1..Len(Reqs) : Reqs[k].cursor = "prev"
    /\ kvState.curWeekProcessedBlock = last.base.cur
    /\ kvState.completeCurWeek
    /\ \A u \in Users :
         bucketTotal(kvState, kvState.currentWeekMs, u)
           = mapGet(weekMap(last.base.weeks, kvState.currentWeekMs), u)
    /\ kvResp.meta.completeCurWeek
    /\ Len(kvResp.weekly) = Len(weekMap(last.base.weeks, kvState.currentWeekMs))
    /\ \A i \in 1..Len(kvResp.weekly) :
         kvResp.weekly[i].points
           = toString(bucketTotal(kvState, kvState.currentWeekMs, kvResp.weekly[i].address))

\* the previous-week cursor advanced over blocks that hold logs, up to the end
\* of its range, while the current bucket was populated and complete
C25_Witness ==
  /\ PrevAdvancedAlone
  /\ ~last.base.prevDone
  /\ \E k \in 1..Len(Reqs) : Reqs[k].lastScannedBlock = kvState.prevWeekToBlock
  /\ Len(weekMap(last.base.weeks, kvState.currentWeekMs)) > 0
  /\ \E u \in Users : bucketTotal(kvState, kvState.lastWeekMs, u)
                        > mapGet(weekMap(last.base.weeks, kvState.lastWeekMs), u)

\* a cached response is served from a state whose current week is complete and
\* populated while the previous week is still catching up
C25_ServedWhileCatchingUp ==
  /\ rev = "p2" /\ last.kind = "cached"
  /\ kvState # NULL
  /\ kvState.completeCurWeek /\ ~kvState.completePrevWeek
  /\ last.reply.body.meta.completeCurWeek /\ ~last.reply.body.meta.completePrevWeek
  /\ Len(last.reply.body.weekly) > 0

\* the blocks of its range a cursor of a persisted state has behind it
progress(state) ==
  IF state = NULL THEN [cur |-> 0, prev |-> 0, curDone |-> FALSE, prevDone |-> FALSE]
  ELSE [cur |-> state.curWeekProcessedBlock, prev |-> state.prevWeekProcessedBlock,
        curDone |-> state.completeCurWeek, prevDone |-> state.completePrevWeek]

\* the fetch of cursor c in the update observed in obs ran to the end of its range
ranToTheEnd(obs, c) ==
  \E k \in 1..Len(obs.reqs) :
    obs.reqs[k].cursor = c /\ obs.reqs[k].complete /\ obs.reqs[k].stops = {}

\* an invocation keeps what the earlier ones persisted: no complete flag is
\* cleared, no total shrinks, and a cursor whose fetch the deadline stopped, or
\* whose fetch did not start, does not move back
NoProgressLost ==
  kvState # NULL =>
    /\ kvState' # NULL
    /\ progress(kvState').cur >= progress(kvState).cur \/ ranToTheEnd(last'.obs, "cur")
    /\ progress(kvState').prev >= progress(kvState).prev \/ ranToTheEnd(last'.obs, "prev")
    /\ progress(kvState).curDone => progress(kvState').curDone
    /\ progress(kvState).prevDone => progress(kvState').prevDone
    /\ \A w \in {kvState.currentWeekMs, kvState.lastWeekMs} : \A u \in Users :
         bucketTotal(kvState', w, u) >= bucketTotal(kvState, w, u)

\* C26: from a cold backfill on, within one week, with fetches that do not
\* throw and invocations that each scan a chunk before the deadline, both
\* cursors are complete after finitely many invocations, and no invocation
\* loses progress that an earlier one persisted.
C26_BackfillTerminates ==
  /\ <>BothComplete
  /\ [][NoProgressLost]_vars

\* every invocation of the resumed backfill scanned at least one chunk
C26_EveryInvocationScans ==
  Ran => \E k \in 1..Len(Reqs) : Reqs[k].lastScannedBlock >= Reqs[k].from

\* both cursors are complete after four invocations or more, the latest of which
\* resumed a cursor that a deadline had stopped
C26_Witness ==
  /\ BothComplete
  /\ invocations >= 4
  /\ Warm /\ ~last.base.prevDone
  /\ last.base.prev >= kvState.prevWeekFromBlock

\* fetchLogsRange was applied to a range and returned
Fetched == probe.op = "fetch" /\ probe.stage = "out" /\ ~probe.out.thrown

\* the eth_getLogs calls of a fetch that were answered, in order
answered(chunks) == SelectSeq(chunks, LAMBDA c : c.out = "ok")

\* the answered chunks of a fetch start at fromBlock, follow one another without
\* gap or overlap, and end at lastScanned; without any, nothing before fromBlock
\* is left behind: lastScanned = fromBlock - 1
contiguous(chunks, fromBlock, lastScanned) ==
  LET a == answered(chunks)
  IN IF a = <<>> THEN lastScanned = fromBlock - 1
     ELSE /\ a[1].from = fromBlock
          /\ \A k \in 1..(Len(a) - 1) : a[k + 1].from = a[k].to + 1
          /\ \A k \in 1..Len(a) : a[k].from <= a[k].to
          /\ a[Len(a)].to = lastScanned

scanIsExact(from, to, r) ==
  /\ r.lastScannedBlock <= to
  /\ r.logs = LogsInRange(from, r.lastScannedBlock, FetchHead)
  /\ contiguous(r.chunks, from, r.lastScannedBlock)
  /\ r.complete <=> r.lastScannedBlock = to

\* C27: for 0 <= fromBlock <= toBlock, what fetchLogsRange returns is the logs
\* of [fromBlock, lastScannedBlock], fetched as contiguous chunks that do not
\* overlap, with lastScannedBlock <= toBlock, complete exactly when
\* lastScannedBlock = toBlock, and lastScannedBlock the end of the last chunk
\* that was fetched.
C27_ScanIsExact ==
  Fetched => scanIsExact(probe.from, probe.to, probe.out)

\* the same from block 1 on
C27_HoldsFromBlockOne ==
  Fetched /\ probe.from >= 1 => scanIsExact(probe.from, probe.to, probe.out)

\* a scan from block 0 that the deadline stops before its first chunk reports
\* block 0 as scanned
C27_BlockZeroReportedScanned ==
  Fetched /\ probe.from = 0 /\ answered(probe.out.chunks) = <<>> =>
    /\ probe.out.lastScannedBlock = 0
    /\ probe.out.logs = <<>>
    /\ ~probe.out.complete

\* a scan of several chunks was stopped by the deadline after some of them
C27_StoppedMidScan ==
  /\ Fetched /\ probe.from >= 1
  /\ ~probe.out.complete
  /\ Len(answered(probe.out.chunks)) >= 2
  /\ probe.out.logs # <<>>

\* the range [0, 0] was asked for when the deadline had passed
C27_BlockZeroSeen ==
  /\ Fetched /\ probe.from = 0 /\ probe.to = 0
  /\ ~probe.out.complete /\ probe.out.lastScannedBlock = probe.to

\* fetchLogsRange was applied, whether it returned or threw
FetchRan == probe.op = "fetch" /\ probe.stage = "out"

\* the chunk size stays between the minimum and the initial size and never grows
sizeInBounds(chunks) ==
  /\ \A k \in 1..Len(chunks) : hardMinStep <= chunks[k].step /\ chunks[k].step <= stepInitial
  /\ \A k \in 1..(Len(chunks) - 1) : chunks[k + 1].step <= chunks[k].step

\* a range-too-large error halves the size, floored at the minimum, and the same
\* from block is asked for again
halvesWhenTooLarge(chunks) ==
  \A k \in 1..(Len(chunks) - 1) :
    errorOf(chunks[k].out).kind = "tooLarge" =>
      /\ chunks[k + 1].from = chunks[k].from
      /\ chunks[k + 1].step = shrink(chunks[k].step, hardMinStep)

\* after an error of one of the kinds, the same from block is asked for again with
\* the size unchanged
retriesUnchanged(chunks, kinds) ==
  \A k \in 1..(Len(chunks) - 1) :
    chunks[k].out # "ok" /\ errorOf(chunks[k].out).kind \in kinds =>
      /\ chunks[k + 1].from = chunks[k].from
      /\ chunks[k + 1].step = chunks[k].step

\* the from block moves only past a chunk that was answered
advancesOnSuccess(chunks) ==
  \A k \in 1..(Len(chunks) - 1) :
    /\ chunks[k].out = "ok" => chunks[k + 1].from = chunks[k].to + 1
    /\ chunks[k].out # "ok" => chunks[k + 1].from = chunks[k].from

\* C28: in the RPC chunked scan the chunk size never grows and stays between
\* the minimum (900) and the initial size (8000); a range-too-large error halves it
\* (floored at the minimum) and retries the same from block, a rate-limit or
\* transient error retries the same from block with the size unchanged, and the
\* from block advances only after a chunk was fetched.
C28_ChunkSizeDiscipline ==
  FetchRan =>
    /\ sizeInBounds(probe.out.chunks)
    /\ halvesWhenTooLarge(probe.out.chunks)
    /\ retriesUnchanged(probe.out.chunks, {"rateLimit", "transient"})
    /\ advancesOnSuccess(probe.out.chunks)

\* the same, but for the rate-limit errors: only those whose message does not
\* contain "limit" leave the size unchanged
C28_HoldsUnlessMessageSaysLimit ==
  FetchRan =>
    /\ sizeInBounds(probe.out.chunks)
    /\ halvesWhenTooLarge(probe.out.chunks)
    /\ retriesUnchanged(probe.out.chunks, {"transient"})
    /\ \A k \in 1..(Len(probe.out.chunks) - 1) :
         probe.out.chunks[k].out = "ratelimit" =>
           probe.out.chunks[k + 1].step = probe.out.chunks[k].step
    /\ advancesOnSuccess(probe.out.chunks)

\* a rate-limit error whose message contains "limit" halves the size
C28_RateLimitTextHalves ==
  FetchRan =>
    \A k \in 1..(Len(probe.out.chunks) - 1) :
      probe.out.chunks[k].out = "overlimit" =>
        /\ probe.out.chunks[k + 1].from = probe.out.chunks[k].from
        /\ probe.out.chunks[k + 1].step = shrink(probe.out.chunks[k].step, hardMinStep)

\* a rate-limit answer was followed by a smaller chunk
C28_RateLimitHalvedSeen ==
  /\ FetchRan
  /\ \E k \in 1..(Len(probe.out.chunks) - 1) :
       /\ errorOf(probe.out.chunks[k].out).kind = "rateLimit"
       /\ probe.out.chunks[k + 1].step < probe.out.chunks[k].step

\* the size reached the minimum after successive range-too-large errors
C28_FlooredSeen ==
  /\ FetchRan
  /\ \E k \in 1..Len(probe.out.chunks) : probe.out.chunks[k].step = hardMinStep

\* fetchLogsViaBaseScan was applied, whether it returned or threw
PagesRan == probe.op = "pages" /\ probe.stage = "out"

RECURSIVE appendedUpTo(_, _)
appendedUpTo(pages, k) == IF k = 0 THEN 0 ELSE pages[k].appended + appendedUpTo(pages, k - 1)

\* pages 1, 2, 3, ... in order: the next page only after a full one, the same page
\* again after a rate limit, nothing after a short page or a "no records" answer
inPageOrder(pages) ==
  /\ pages # <<>> => pages[1].page = 1
  /\ \A k \in 1..(Len(pages) - 1) :
       /\ pages[k].answer \in {"full", "ratelimit"}
       /\ pages[k].answer = "full" => pages[k + 1].page = pages[k].page + 1
       /\ pages[k].answer = "ratelimit" => pages[k + 1].page = pages[k].page
  /\ \A k \in 1..Len(pages) :
       /\ pages[k].answer = "full" <=> pages[k].appended = offset
       /\ pages[k].answer = "ratelimit" => pages[k].appended = 0

\* C29: the explorer scan asks for pages 1, 2, 3, ... in order, appends each
\* page's records exactly once, moves to the next page only after a full page
\* (1000 records), stops on a short page or a "no records" answer, and after a
\* rate-limit answer asks for the same page again, appending nothing and not failing.
C29_PagesInOrder ==
  PagesRan =>
    /\ inPageOrder(probe.out.pages)
    /\ probe.out.thrown => probe.throwOnDeadline /\ probe.out.stops = {"scan"}
    /\ ~probe.out.thrown =>
         probe.out.logs = [k \in 1..appendedUpTo(probe.out.pages, Len(probe.out.pages)) |-> k]
    /\ probe.out.complete =>
         /\ Len(probe.out.logs) = probe.records
         /\ probe.out.pages[Len(probe.out.pages)].answer \in {"short", "norecords"}
    /\ ~probe.out.complete => probe.out.stops = {"scan"}

\* three pages were read to the end, with a rate-limit answer on the way
C29_Witness ==
  /\ PagesRan /\ probe.out.complete
  /\ probe.records = 2 * offset + 1
  /\ \E k \in 1..Len(probe.out.pages) : probe.out.pages[k].answer = "ratelimit"
  /\ probe.out.pages[Len(probe.out.pages)].page = 3

\* a scan ended on a "no records" answer after full pages
C29_NoRecordsAfterFullPage ==
  /\ PagesRan /\ probe.out.complete /\ probe.records = offset
  /\ probe.out.pages[Len(probe.out.pages)].answer = "norecords"

\* the binary search was applied to a chain and a target
Searched == probe.op = "search" /\ probe.stage = "out"

\* the number of binary digits of n >= 1: floor(log2(n)) + 1
RECURSIVE bits(_)
bits(n) == IF n <= 1 THEN 1 ELSE 1 + bits(n \div 2)

\* the blocks of a chain whose timestamp is at or after the target
atOrAfter(chain, target) == { b \in 0..(Len(chain.ts) - 1) : chain.ts[b + 1] >= target }

\* C30: for timestamps that do not decrease with the block number, the binary
\* search over [0, latestBlock] ends after at most floor(log2(latestBlock + 1)) + 1
\* timestamp lookups and returns the smallest block whose timestamp >= target when
\* there is one, and latestBlock when there is none.
C30_BinarySearch ==
  Searched =>
    LET latestBlock == Len(probe.chain.ts) - 1
        hits == atOrAfter(probe.chain, probe.target)
    IN /\ probe.out.calls >= 1
       /\ probe.out.calls <= bits(latestBlock + 1)
       /\ hits # {} => probe.out.ans \in hits /\ \A b \in hits : probe.out.ans <= b
       /\ hits = {} => probe.out.ans = latestBlock

\* on a chain of seven blocks the third block is found in three lookups, with
\* blocks of equal timestamps on both sides of it
C30_Witness ==
  /\ Searched
  /\ Len(probe.chain.ts) = 7
  /\ probe.out.ans = 2
  /\ probe.out.calls = 3
  /\ probe.chain.ts[3] = probe.chain.ts[4] /\ probe.chain.ts[1] = probe.chain.ts[2]

\* no block of the chain is at or after the target: latestBlock is returned
C30_NoneAtOrAfter ==
  /\ Searched
  /\ Len(probe.chain.ts) >= 4
  /\ atOrAfter(probe.chain, probe.target) = {}
  /\ probe.out.ans = Len(probe.chain.ts) - 1

\* the cursors of a cold backfill were built
CursorsBuilt == probe.op = "cursors" /\ probe.stage = "out"

\* the blocks the first scans of the two cursors ask for (incrementalUpdate steps 1, 2)
firstScan(state, cursor) ==
  IF cursor = "cur"
    THEN cursorFrom(state.curWeekProcessedBlock, state.curWeekFromBlock)..state.latestBlock
  ELSE cursorFrom(state.prevWeekProcessedBlock, state.prevWeekFromBlock)..state.prevWeekToBlock

cursorsPartition(state) ==
  /\ state.prevWeekToBlock + 1 = state.curWeekFromBlock
  /\ state.prevWeekFromBlock <= state.curWeekFromBlock
  /\ state.prevWeekProcessedBlock = state.prevWeekFromBlock - 1
  /\ state.curWeekProcessedBlock = state.curWeekFromBlock - 1
  /\ \A b \in state.prevWeekFromBlock..state.latestBlock :
       /\ ~(b \in state.prevWeekFromBlock..state.prevWeekToBlock
              /\ b \in state.curWeekFromBlock..state.latestBlock)
       /\ (b \in firstScan(state, "prev")) # (b \in firstScan(state, "cur"))

\* C31: after a cold backfill the previous-week cursor is bounded to
\* [prevFrom, curFrom - 1] and the current-week cursor to [curFrom, latestBlock]:
\* prevWeekToBlock + 1 = curWeekFromBlock, prevFrom <= curFrom, each processedBlock
\* starts at its from block minus one, and for every resolved boundary, block 0
\* included, no block is in both ranges and no block of [prevFrom, latestBlock]
\* is in neither.
C31_CursorsPartitionTheChain ==
  CursorsBuilt => cursorsPartition(probe.out)

\* the same when both week starts resolve past the safety buffer
C31_HoldsPastSafetyBuffer ==
  CursorsBuilt /\ probe.prev > SAFETY_BUFFER => cursorsPartition(probe.out)

\* a current-week start that resolves to block 0 puts block 0 in both ranges and in
\* neither first scan
C31_BlockZeroInBothRanges ==
  CursorsBuilt /\ probe.cur = 0 =>
    /\ probe.out.prevWeekToBlock = 0 /\ probe.out.curWeekFromBlock = 0
    /\ probe.out.curWeekProcessedBlock = 0
    /\ 0 \notin firstScan(probe.out, "cur") /\ 0 \notin firstScan(probe.out, "prev")

\* only the current-week start is moved back by the buffer: the previous week
\* then starts after the current one
C31_BufferSwapsTheOrder ==
  CursorsBuilt /\ probe.prev <= SAFETY_BUFFER /\ probe.cur > SAFETY_BUFFER
               /\ probe.cur - SAFETY_BUFFER < probe.prev =>
    probe.out.prevWeekFromBlock > probe.out.curWeekFromBlock

C31_BlockZeroSeen ==
  CursorsBuilt /\ probe.cur = 0 /\ probe.latest > 0

C31_SwappedSeen ==
  CursorsBuilt /\ probe.out.prevWeekFromBlock > probe.out.curWeekFromBlock

C31_PastBufferSeen ==
  CursorsBuilt /\ probe.prev > SAFETY_BUFFER /\ probe.cur > probe.prev
               /\ probe.latest > probe.cur

(***************************************************************************)
(* C32: the view of a bucket                                               *)
(***************************************************************************)
Viewed == probe.op = "view" /\ probe.stage = "out"

\* the total the bucket holds for an address
held(map, address) == map[CHOOSE i \in 1..Len(map) : map[i][1] = address][2]

\* a decimal string: digits, no leading zero
isDecimal(str) ==
  /\ Len(str) >= 1
  /\ \A k \in 1..Len(str) : str[k] \in 0..9
  /\ Len(str) > 1 => str[1] # 0

\* view lists at most MAX_TOP addresses of map, each once, with its total as a
\* decimal string, in non-increasing order of total, and no address left out
\* has a greater total than a listed one
isViewOf(view, map) ==
  LET listed == { view[i].address : i \in 1..Len(view) }
      users == { map[i][1] : i \in 1..Len(map) }
  IN /\ Len(view) = Min(MAX_TOP, Len(map))
     /\ listed \subseteq users
     /\ Cardinality(listed) = Len(view)
     /\ \A i \in 1..Len(view) :
          /\ isDecimal(view[i].points)
          /\ view[i].points = toString(held(map, view[i].address))
     /\ \A i \in 1..(Len(view) - 1) :
          held(map, view[i].address) >= held(map, view[i + 1].address)
     /\ \A i \in 1..Len(map) :
          map[i][1] \notin listed => map[i][2] <= held(map, view[Len(view)].address)

\* C32: the payload lists for each of the two buckets at most MAX_TOP entries,
\* the highest totals of the bucket in non-increasing order with the points as
\* decimal strings, and as PRUNE_KEEP >= MAX_TOP the payload of the pruned
\* state lists the same entries
C32_ViewIsTheTop ==
  Viewed =>
    /\ PRUNE_KEEP >= MAX_TOP
    /\ isViewOf(probe.out.fresh.weekly, probe.cur)
    /\ isViewOf(probe.out.fresh.lastWeek, probe.prev)
    /\ probe.out.pruned.weekly = probe.out.fresh.weekly
    /\ probe.out.pruned.lastWeek = probe.out.fresh.lastWeek

\* a bucket larger than PRUNE_KEEP with its totals out of order was pruned and
\* viewed, addresses with equal totals on both sides of the cut
C32_Witness ==
  /\ Viewed
  /\ Len(probe.cur) > PRUNE_KEEP
  /\ Len(probe.out.kept[1].map) = PRUNE_KEEP
  /\ Len(probe.out.fresh.weekly) = MAX_TOP
  /\ \E i \in 1..(Len(probe.cur) - 1) : probe.cur[i][2] < probe.cur[i + 1][2]
  /\ \E i \in 1..Len(probe.cur) :
       /\ probe.cur[i][1] \notin { probe.out.fresh.weekly[k].address : k \in 1..MAX_TOP }
       /\ toString(probe.cur[i][2]) = probe.out.fresh.weekly[MAX_TOP].points

(***************************************************************************)
(* C33: the cached response follows the persisted state                    *)
(***************************************************************************)
\* the latest invocation updated and answered ok: true
UpdatedOk == last.kind = "updated" /\ last.reply.status = 200 /\ last.reply.body.ok

\* the cached response is what the formatter makes of the state under the
\* state key, and it is what the invocation answered
cacheFollowsState ==
  UpdatedOk =>
    /\ kvState # NULL /\ kvResp # NULL
    /\ kvResp = formatResponsePayload(deserializeState(kvState))
    /\ last.reply.body = kvResp

\* a request without refresh that follows is answered with that payload
servedAsCached ==
  (UpdatedOk /\ last'.kind = "cached") =>
    /\ last'.reply = last.reply
    /\ UNCHANGED <<kvState, kvResp, kvLock>>

\* C33: after an update answered ok: true the cached response is the formatted
\* projection of the state the invocation persisted, and a following request
\* without refresh is served exactly that payload
C33_CacheFollowsState == [](cacheFollowsState) /\ [][servedAsCached]_vars

\* an update that started from a persisted state answered ok: true with a
\* leaderboard that is not empty, over a cached response of an earlier update
C33_Witness ==
  /\ UpdatedOk
  /\ last.base.present
  /\ invocations >= 2
  /\ Len(kvResp.weekly) > 0

(***************************************************************************)
(* Two invocations of the handler on the same store, await by await        *)
(***************************************************************************)
Callers == {1, 2}

\* the first caller arrives when the head is the block of a log of ChainLogs,
\* the second with it or later in the week
AtLog == 4000 * BlockTimeSec * 1000
RaceInstants == {W1 + AtLog, W1 + LateWeek}

FirstProfiles == { Env(500, <<>>, "ok", "ok", "head"), Env(5000, <<>>, "ok", "ok", "head") }

SecondProfiles ==
  { Env(500, <<>>, "ok", "ok", "head"),
    Env(500, <<>>, "ok", "ok", "behind"),
    Env(500, <<"freetier">>, "error", "ok", "head") }

\* the store: configured, configured with a lock command that rejects, not configured
Stores == {"none", "lockThrows", "noStore"}

Call(refresh, now, profile, fault) ==
  [pc |-> IF refresh THEN "lock" ELSE "fast", refresh |-> refresh, now |-> now,
   env |-> AtInstant(profile, now, fault), gotLock |-> FALSE, released |-> FALSE,
   found |-> "untried", updated |-> NULL, resp |-> NULL, reply |-> NoReply]

\* what an earlier update at the start of the week left in the store
Snapshot(r) ==
  IF r = "api"
    THEN incrementalUpdate_api(NULL, Healthy(W1 + AtStart), W1 + AtStart).state
  ELSE incrementalUpdate_p2(NULL, Healthy(W1 + AtStart), W1 + AtStart).state

InitRace ==
  /\ rev \in {"api", "p2"}
  /\ clock = W1 + AtStart
  /\ invocations = 0
  /\ \E warm \in BOOLEAN :
       /\ kvState = IF warm THEN serializeState(Snapshot(rev)) ELSE NULL
       /\ kvResp = IF warm THEN formatResponsePayload(Snapshot(rev)) ELSE NULL
  /\ kvLock = FALSE
  /\ last = [kind |-> "none", latest |-> NOBLOCK, obs |-> NoObs, base |-> NoBase,
             lock |-> NoLock, names |-> "none", reply |-> NoReply]
  /\ scanned = [cur |-> NoCover, prev |-> NoCover]
  /\ probe = NoProbe
  /\ \E store \in Stores, r1 \in BOOLEAN, r2 \in BOOLEAN, p1 \in FirstProfiles,
        p2 \in SecondProfiles, n2 \in RaceInstants :
       calls = << Call(r1, W1 + AtLog, p1, store), Call(r2, n2, p2, store) >>

Me(c) == calls[c]
Becomes(c, call) == calls' = [calls EXCEPT ![c] = call]
Framed == UNCHANGED <<rev, clock, invocations, last, scanned, probe>>

\* a variant that returns the cached response as it is
busy_unmarked(cached) == cached

\* { ...cached, meta: { ...cached.meta, busy: true } }
busy(cached) == [cached EXCEPT !.meta = [busy |-> TRUE] @@ @]

\* if (!refresh) { const cached = await getCachedResponse(); if (cached) return ... }
Fast(c) ==
  /\ Me(c).pc = "fast"
  /\ IF kvResp # NULL
       THEN Becomes(c, [Me(c) EXCEPT !.pc = "done", !.reply = okReply(kvResp)])
     ELSE Becomes(c, [Me(c) EXCEPT !.pc = "lock"])
  /\ UNCHANGED <<kvState, kvResp, kvLock>>
  /\ Framed

\* const gotLock = await storeAcquireLock(KV_LOCK_KEY, 30)
Acquire(c) ==
  /\ Me(c).pc = "lock"
  /\ LET got(lk) ==
           /\ kvLock' = lk.lock
           /\ Becomes(c, [Me(c) EXCEPT !.gotLock = lk.gotLock,
                                       !.found = IF kvLock THEN "held" ELSE "free",
                                       !.pc = IF ~lk.gotLock /\ ~Me(c).refresh THEN "busy"
                                              ELSE "read"])
     IN got(storeAcquireLock(kvLock, Me(c).env.fault))
  /\ UNCHANGED <<kvState, kvResp>>
  /\ Framed

\* if (!gotLock && !refresh) { const cached = await getCachedResponse(); if (cached) return ... }
Busy(c) ==
  /\ Me(c).pc = "busy"
  /\ IF kvResp # NULL
       THEN Becomes(c, [Me(c) EXCEPT !.pc = "done", !.reply = okReply(busy(kvResp))])
     ELSE Becomes(c, [Me(c) EXCEPT !.pc = "read"])
  /\ UNCHANGED <<kvState, kvResp, kvLock>>
  /\ Framed

\* storeGetJson(KV_STATE_KEY), deserializeState, incrementalUpdate, formatResponsePayload:
\* one read of the store, then the chain only
ReadAndUpdate(c) ==
  /\ Me(c).pc = "read"
  /\ LET ran(u) ==
           IF u.thrown THEN Becomes(c, [Me(c) EXCEPT !.pc = "catch"])
           ELSE Becomes(c, [Me(c) EXCEPT !.pc = "writeState", !.updated = u.state,
                                         !.resp = formatResponsePayload(u.state)])
     IN ran(incrementalUpdate(deserializeState(kvState), Me(c).env, Me(c).now))
  /\ UNCHANGED <<kvState, kvResp, kvLock>>
  /\ Framed

\* await storeSetJson(KV_STATE_KEY, serializeState(updated), STATE_TTL_SECONDS)
WriteState(c) ==
  /\ Me(c).pc = "writeState"
  /\ kvState' = serializeState(Me(c).updated)
  /\ Becomes(c, [Me(c) EXCEPT !.pc = "writeResp"])
  /\ UNCHANGED <<kvResp, kvLock>>
  /\ Framed

\* await setCachedResponse(resp)
WriteResp(c) ==
  /\ Me(c).pc = "writeResp"
  /\ kvResp' = setCachedResponse(kvResp, Me(c).resp)
  /\ Becomes(c, [Me(c) EXCEPT !.pc = "release"])
  /\ UNCHANGED <<kvState, kvLock>>
  /\ Framed

\* await storeReleaseLock(KV_LOCK_KEY); return res.status(200).send(JSON.stringify(resp))
Release(c) ==
  /\ Me(c).pc = "release"
  /\ kvLock' = storeReleaseLock(kvLock, Me(c).env.fault)
  /\ Becomes(c, [Me(c) EXCEPT !.pc = "done", !.released = TRUE, !.reply = okReply(Me(c).resp)])
  /\ UNCHANGED <<kvState, kvResp>>
  /\ Framed

\* catch (e) { try { await storeReleaseLock(KV_LOCK_KEY) } catch (_) {} ... ok: false ... }
Catch(c) ==
  /\ Me(c).pc = "catch"
  /\ kvLock' = storeReleaseLock(kvLock, Me(c).env.fault)
  /\ Becomes(c, [Me(c) EXCEPT !.pc = "done", !.released = TRUE,
                              !.reply = errorEnvelope("update")])
  /\ UNCHANGED <<kvState, kvResp>>
  /\ Framed

\* the enabling condition of the steps of caller c: none of them waits for the
\* store to be in some state
CanStep(c) ==
  Me(c).pc \in {"fast", "lock", "busy", "read", "writeState", "writeResp", "release", "catch"}

NextRace ==
  \E c \in Callers :
    \/ Fast(c)
    \/ Acquire(c)
    \/ Busy(c)
    \/ ReadAndUpdate(c)
    \/ WriteState(c)
    \/ WriteResp(c)
    \/ Release(c)
    \/ Catch(c)

SpecRace == InitRace /\ [][NextRace]_vars

(***************************************************************************)
(* C34: the lock is advisory                                               *)
(***************************************************************************)
Done(c) == Me(c).pc = "done"
\* the caller asked for the lock while another held it, and did not get it
Failed(c) == Me(c).found = "held" /\ ~Me(c).gotLock
\* the caller was answered from the cache after failing to get the lock
ServedBusy(c) == Done(c) /\ Failed(c) /\ ~Me(c).released
\* the caller's log sources fail
UpdateFails(c) == Me(c).env.xlogs = "error"

lockIsAdvisory(c) ==
  \* it is not kept waiting
  /\ (~Done(c) /\ Me(c).found # "untried") => CanStep(c)
  \* it is answered from the cache, marked busy, or it goes through the update
  /\ ServedBusy(c) =>
       /\ ~Me(c).refresh
       /\ Me(c).reply.status = 200 /\ Me(c).reply.body.ok
       /\ "busy" \in DOMAIN Me(c).reply.body.meta /\ Me(c).reply.body.meta.busy
       /\ [Me(c).reply.body EXCEPT !.meta = [f \in DOMAIN @ \ {"busy"} |-> @[f]]].weekly
            = Me(c).reply.body.weekly
  /\ (Done(c) /\ Failed(c) /\ Me(c).released) =>
       /\ Me(c).reply.status = 200
       /\ ~Me(c).reply.body.ok => UpdateFails(c)
  \* a lock command that rejects counts as acquired; so does a missing store
  /\ (Me(c).found # "untried" /\ Me(c).env.fault \in {"lockThrows", "noStore"}) => Me(c).gotLock

\* C34: an invocation that does not get the lock because another holds it is
\* neither kept waiting nor failed: it answers with the cached response marked
\* busy (no refresh asked, a cached response exists) or goes on with the
\* update, and answers ok: false only if its own update fails; with no store
\* configured the acquisition always returns true
C34_LockIsAdvisory == \A c \in Callers : lockIsAdvisory(c)

\* one caller was answered busy from the cache the other had just written
C34_Witness ==
  \E c \in Callers : ServedBusy(c) /\ ~Me(c).refresh /\ Me(c).resp = NULL

\* a forced refresh that did not get the lock updated and answered ok: true
C34_RefreshWentOn ==
  \E c \in Callers : Done(c) /\ Failed(c) /\ Me(c).refresh /\ Me(c).reply.body.ok

\* with no store configured both callers were told they hold the lock at once
C34_NoStoreBothAcquire ==
  \A c \in Callers : Me(c).env.fault = "noStore" /\ Me(c).gotLock /\ Me(c).pc = "writeState"

(***************************************************************************)
(* C35: persistence round trip                                             *)
(***************************************************************************)
PersistedBack == probe.op = "persist" /\ probe.stage = "out"

BlockFields ==
  {"prevWeekFromBlock", "prevWeekToBlock", "curWeekFromBlock", "prevWeekProcessedBlock",
   "curWeekProcessedBlock", "latestBlock"}

\* C35: deserializeState(serializeState(s)) = s for every state the engine can
\* produce, totals of up to 256 bits and block cursors and boundaries of 0
\* included, so that the next update needs no backfill from the reloaded state
\* when it needs none from the state in memory
C35_RoundTrip ==
  PersistedBack =>
    /\ probe.out.reloaded = probe.state
    /\ probe.out.wide = probe.wide
    /\ needsBackfill_p2(probe.out.reloaded, W1) = needsBackfill_p2(probe.state, W1)

\* the totals, the weeks, the flags and every block that is not 0 come back as
\* they were, and so does a total of up to 256 bits
C35_HoldsButForBlockZero ==
  PersistedBack =>
    /\ probe.out.wide = probe.wide
    /\ \A f \in DOMAIN probe.state \ BlockFields : probe.out.reloaded[f] = probe.state[f]
    /\ \A f \in BlockFields : probe.state[f] # 0 => probe.out.reloaded[f] = probe.state[f]
    /\ (\A f \in BlockFields : probe.state[f] # 0) => probe.out.reloaded = probe.state

\* a block that is 0 is stored as null and comes back as null, and a boundary
\* that comes back as null makes the next update backfill again
C35_ZeroComesBackNull ==
  PersistedBack =>
    /\ \A f \in BlockFields :
         probe.state[f] = 0 => probe.out.stored[f] = NOBLOCK /\ probe.out.reloaded[f] = NOBLOCK
    /\ (\E f \in {"prevWeekFromBlock", "prevWeekToBlock", "curWeekFromBlock"} : probe.state[f] = 0)
         => needsBackfill_p2(probe.out.reloaded, W1)

\* a state whose previous week starts at block 0 was stored and reloaded
C35_BlockZeroSeen ==
  /\ PersistedBack
  /\ probe.state.prevWeekFromBlock = 0
  /\ probe.state.curWeekFromBlock > 0
  /\ probe.out.reloaded.prevWeekFromBlock = NOBLOCK

\* a state without a 0 and the greatest 256-bit total were stored and reloaded
C35_WideSeen ==
  /\ PersistedBack
  /\ \A f \in BlockFields : probe.state[f] > 0
  /\ probe.wide = UintMax
  /\ Len(probe.out.digits) = 78
  /\ probe.out.stored.weeks[1].entries[2] = <<"0xb", <<1, 2, 0>>>>

(***************************************************************************)
(* C36: the fast path                                                      *)
(***************************************************************************)
\* a step that serves a request from the cache
servesFromCache == last'.kind = "cached"

fastPathTouchesNothing ==
  servesFromCache =>
    /\ kvResp # NULL
    /\ last'.reply = [status |-> 200, body |-> kvResp]
    /\ last'.lock = NoLock
    /\ last'.obs = NoObs /\ last'.latest = NOBLOCK
    /\ UNCHANGED <<kvState, kvResp, kvLock, scanned, clock, invocations>>

\* C36: a request without refresh that finds a cached response is answered
\* with it unchanged, asks for no lock, calls neither the RPC nor the explorer
\* and writes nothing: state, cached response and lock stay as they were
C36_FastPathTouchesNothing == [][fastPathTouchesNothing]_vars

\* a request was served from the cache while the lock key of an earlier
\* invocation was still set
C36_Witness ==
  /\ last.kind = "cached"
  /\ last.reply.body = kvResp
  /\ kvLock
  /\ kvState # NULL

(***************************************************************************)
(* C37: what a race can persist                                            *)
(***************************************************************************)
\* the points of user u for week w in the logs at blocks lo..hi, from position k on
RECURSIVE logsTotal(_, _, _, _, _)
logsTotal(u, w, lo, hi, k) ==
  IF k > Len(ChainLogs) THEN 0
  ELSE LET l == ChainLogs[k]
           hit == l.dec # NULL /\ l.user = u /\ l.dec.week = w /\ l.block >= lo /\ l.block <= hi
       IN (IF hit THEN l.dec.points ELSE 0) + logsTotal(u, w, lo, hi, k + 1)

\* the totals of a persisted state are the logs of the ranges its cursors
\* claim: one range for both buckets in api/leaderboard.js, one range per
\* bucket in part_002
totalsMatchCursors(state) ==
  \A u \in Users :
    IF rev = "api"
      THEN \A w \in {state.currentWeekMs, state.lastWeekMs} :
             bucketTotal(state, w, u)
               = logsTotal(u, w, state.backfillFromBlock, state.lastProcessedBlock, 1)
    ELSE /\ bucketTotal(state, state.currentWeekMs, u)
              = logsTotal(u, state.currentWeekMs, state.curWeekFromBlock,
                          state.curWeekProcessedBlock, 1)
         /\ bucketTotal(state, state.lastWeekMs, u)
              = logsTotal(u, state.lastWeekMs, state.prevWeekFromBlock,
                          state.prevWeekProcessedBlock, 1)

BothDone == \A c \in Callers : Done(c)

\* C38: once both invocations have finished, the cached response is the
\* formatted projection of the persisted state: the two keys come from the
\* same writer
C38_KeysFromSameWriter ==
  (BothDone /\ kvState # NULL /\ kvResp # NULL) =>
    kvResp = formatResponsePayload(deserializeState(kvState))

\* it holds when the invocation that wrote its state last also wrote its
\* response last, and when only one of the two wrote
sameWriter ==
  \/ \E c \in Callers : Me(c).updated = NULL
  \/ \E c \in Callers : kvState = serializeState(Me(c).updated) /\ kvResp = Me(c).resp

C38_HoldsForSameWriter ==
  (BothDone /\ kvState # NULL /\ kvResp # NULL /\ sameWriter) =>
    kvResp = formatResponsePayload(deserializeState(kvState))

\* both have finished, the state is the second caller's, the response the first's
C38_MixedSeen ==
  /\ BothDone
  /\ \A c \in Callers : Me(c).reply.body.ok /\ Me(c).updated # NULL
  /\ kvState = serializeState(Me(2).updated)
  /\ kvResp = Me(1).resp
  /\ Me(1).resp # Me(2).resp
  /\ curProcessed(Me(1).updated) < curProcessed(Me(2).updated)

\* both have finished and the two keys agree
C38_AgreeSeen ==
  /\ BothDone
  /\ \A c \in Callers : Me(c).updated # NULL
  /\ Me(1).resp # Me(2).resp
  /\ kvState = serializeState(Me(2).updated)
  /\ kvResp = Me(2).resp

(***************************************************************************)
(* C39: who deletes the lock                                               *)
(***************************************************************************)
\* caller c is between its acquisition and its release, holding the lock key
Holding(c) ==
  /\ Me(c).gotLock /\ Me(c).found = "free"
  /\ Me(c).pc \in {"read", "writeState", "writeResp", "release", "catch"}

\* caller c deletes the lock key in this step
deletes(c) ==
  /\ Me(c).pc \in {"release", "catch"} /\ calls'[c].pc = "done"
  /\ kvLock /\ ~kvLock'

onlyTheHolderDeletes ==
  \A c \in Callers : deletes(c) => Me(c).gotLock

\* C39: an invocation deletes the lock only if it acquired it: one whose
\* acquisition returned false never removes the lock of another invocation
\* that is still running its update
C39_OnlyTheHolderDeletes == [][onlyTheHolderDeletes]_vars

\* an invocation that acquired the lock deletes it, and so does one whose lock
\* command rejected; the busy path and the fast path delete nothing
holderOrRefused ==
  \A c \in Callers :
    /\ deletes(c) => Me(c).found # "untried"
    /\ (Me(c).pc \in {"fast", "busy"} /\ calls'[c] # calls[c]) => UNCHANGED kvLock

C39_OnlyAfterAsking == [][holderOrRefused]_vars

\* the lock key is gone while the caller that set it is still updating: the
\* other caller, refused, has finished and deleted it
C39_DeletedUnderTheHolder ==
  \E c \in Callers, o \in Callers :
    /\ c # o
    /\ Holding(c) /\ Me(c).env.fault = "none"
    /\ Done(o) /\ Failed(o) /\ Me(o).released
    /\ ~kvLock

\* the holder released its own lock after the other caller was answered busy
C39_HolderReleasedSeen ==
  \E c \in Callers, o \in Callers :
    /\ c # o
    /\ Done(c) /\ Me(c).gotLock /\ Me(c).found = "free" /\ Me(c).released
    /\ ServedBusy(o)
    /\ ~kvLock

(***************************************************************************)
(* C40: merging is additive and exact                                      *)
(***************************************************************************)
\* the store holds a state of the deployed revision's schema
CurrentSchema == kvState # NULL /\ Field(kvState, "schemaVersion", 0) = SchemaOf(rev)

====
